---- MODULE Spec2Model ----
(***************************************************************************)
(* A model of the network monitoring suite: the suite runner               *)
(* (run_monitoring.py), the shared utilities (utils/common.py) and the     *)
(* batch parts of the discovery and health check tools, the health        *)
(* monitor (scripts/health_check.py), the notification manager             *)
(* (utils/notifications.py) and the range expansion of the discovery tool, *)
(* the discovery of one address, the inventory file and the uptime text    *)
(* (scripts/device_discovery.py), driver detection (utils/device_types.py),*)
(* the progress tracker and concurrent credential requests                 *)
(* (utils/common.py) and the interface metrics (scripts/health_check.py).  *)
(*                                                                         *)
(* Python values are encoded as follows.  An optional value is a sequence  *)
(* of length 0 (None) or 1 (the value).  An argument vector is the         *)
(* sequence of its option names: the values that follow an option are      *)
(* produced by the runner's own parser from the same choices and types,    *)
(* so only the option names decide whether a tool's parser accepts them.   *)
(***************************************************************************)
EXTENDS Integers, Sequences, FiniteSets, TLC

VARIABLES
    \* ---- suite runner (run_monitoring.py)
    cli,            \* the parsed command line and the environment of main()
    pc,             \* position of main(): start, init, loop, script, final, exited
    scripts_to_run, \* main(): the ordered list of selected tools
    common_args,    \* main(): the option names forwarded to every tool
    idx,            \* run_monitoring_suite(): position of the for loop
    sys_argv,       \* the process argument vector
    original_argv,  \* run_script(): the saved argument vector
    results,        \* run_monitoring_suite(): tool name -> run result
    started,        \* history: the tools whose entry function was called, in order
    last_outcome,   \* history: how the entry function called last ended (None before)
    summary_code,   \* value returned by generate_summary_report (None before)
    exit_code,      \* process exit status (None while running)
    exit_via,       \* how main() ended: "", "no_selection", "fatal", "interrupt",
                    \* "status", "uncaught_exit"
    \* ---- retry wrapper (utils/common.py, retry_on_failure)
    rw,             \* one call of a wrapped function: parameters, locals, history
    \* ---- connection manager (utils/common.py, ConnectionManager)
    max_connections, \* self.max_connections
    pool,           \* self._connection_pool: device key -> session
    sessions,       \* every session ConnectHandler opened: its key and state
    th,             \* per thread: the create_connection call in progress
    begun,          \* number of create_connection calls begun so far
    \* ---- credential manager (utils/common.py, CredentialManager)
    credentials_cache, \* self._credentials_cache: username -> credential set
    cred_calls,     \* number of get_credentials calls made
    last_cred,      \* history: inputs and outcome of the latest get_credentials call
    \* ---- batch runs of device_discovery.py and health_check.py
    batch,          \* the run: tool, incremental flag, addresses asked for, position
    known_devices,  \* self.known_devices: address -> device loaded from the inventory
    discovered_devices, \* self.discovered_devices: address -> device found by a scan
    task,           \* address -> the worker task submitted for it
    harvested,      \* addresses whose future the harvesting loop has processed
    discovered,     \* discover_network(): the local dict of devices found
    health_data,    \* self.health_data: address -> health record
    failures,       \* history: addresses logged as failed by the harvesting loop
    summary,        \* the summary report (None before)
    inventory_file, \* the devices written to the inventory file (None before)
    \* ---- one device's health record (health_check.py, DeviceHealth)
    dh,             \* the record under collection and its evaluation
    \* ---- health monitor run (health_check.py, main and HealthMonitor)
    mpc,            \* position of main(): check, summary, save, alerts, exit, exited
    monitor_args,   \* the inputs of the run: --send-alerts, the number of
                    \* configured devices, whether the history file can be
                    \* written, and the history list loaded from it
    monitor_health, \* self.health_data: the records checked, in insertion order
    historical_data, \* self.historical_data: the history records, oldest first
    history_file,   \* the records in the history file
    now,            \* the clock, in days
    saved,          \* history: whether save_historical_data wrote the file
    health_summary, \* the summary report of the run (None before)
    notifications,  \* history: the calls send_notification received
    health_exit,    \* the process exit status (None while running)
    \* ---- notification manager (utils/notifications.py)
    nm,             \* one send_notification call: configuration, position, history
    \* ---- range expansion (device_discovery.py, discover_network)
    rg,             \* one expansion: the tokens, the position, the scan list
    \* ---- one address of a discovery scan (device_discovery.py)
    sd,             \* one discover_single_device call: the network, position, history
    \* ---- driver detection (utils/device_types.py, DeviceTypeDetector)
    dt,             \* one detect_device_type call: the logins, position, history
    \* ---- progress tracker (utils/common.py, ProgressTracker)
    pt,             \* the tracker's counters and the update calls of each thread
    \* ---- interface metrics (health_check.py, collect_interface_metrics)
    im,             \* one collection: the listing, position, the metrics recorded
    \* ---- uptime formatting (device_discovery.py, format_uptime)
    ut,             \* one call: the tick count and the text rendered
    \* ---- inventory file (device_discovery.py, save and load)
    inv,            \* two runs of the tool over one inventory file
    \* ---- concurrent credential requests (utils/common.py, get_credentials)
    ct              \* the cache, the prompts, and each thread's call in progress

suiteVars == <<cli, pc, scripts_to_run, common_args, idx, sys_argv, original_argv,
               results, started, last_outcome, summary_code, exit_code, exit_via>>

connVars == <<max_connections, pool, sessions, th, begun>>

credVars == <<credentials_cache, cred_calls, last_cred>>

batchVars == <<batch, known_devices, discovered_devices, task, harvested, discovered,
               health_data, failures, summary, inventory_file>>

monitorVars == <<mpc, monitor_args, monitor_health, historical_data, history_file,
                 now, saved, health_summary, notifications, health_exit>>

coreVars == <<suiteVars, rw, connVars, credVars, batchVars>>
toolVars == <<dh, monitorVars, nm, rg>>

unitVars == <<sd, dt, pt, im, ut, inv, ct>>

vars == <<coreVars, toolVars, unitVars>>

notSuite == <<rw, connVars, credVars, batchVars, toolVars, unitVars>>
notRetry == <<suiteVars, connVars, credVars, batchVars, toolVars, unitVars>>
notConn == <<suiteVars, rw, credVars, batchVars, toolVars, unitVars>>
notCred == <<suiteVars, rw, connVars, batchVars, toolVars, unitVars>>
notBatch == <<suiteVars, rw, connVars, credVars, toolVars, unitVars>>
notHealth == <<coreVars, monitorVars, nm, rg, unitVars>>
notMonitor == <<coreVars, dh, nm, rg, unitVars>>
notNotify == <<coreVars, dh, monitorVars, rg, unitVars>>
notRanges == <<coreVars, dh, monitorVars, nm, unitVars>>
notSingle == <<coreVars, toolVars, dt, pt, im, ut, inv, ct>>
notDetect == <<coreVars, toolVars, sd, pt, im, ut, inv, ct>>
notProgress == <<coreVars, toolVars, sd, dt, im, ut, inv, ct>>
notInterfaces == <<coreVars, toolVars, sd, dt, pt, ut, inv, ct>>
notUptime == <<coreVars, toolVars, sd, dt, pt, im, inv, ct>>
notInventory == <<coreVars, toolVars, sd, dt, pt, im, ut, ct>>
notRequests == <<coreVars, toolVars, sd, dt, pt, im, ut, inv>>

None == <<>>
Some(x) == <<x>>

----------------------------------------------------------------------------
(* A component that takes no part in a specification rests in its idle state *)

SuiteIdle ==
    /\ cli = [all |-> FALSE, flags |-> {}]
    /\ pc = "off"
    /\ scripts_to_run = <<>>
    /\ common_args = <<>>
    /\ idx = 0
    /\ sys_argv = <<>>
    /\ original_argv = <<>>
    /\ results = <<>>
    /\ started = <<>>
    /\ last_outcome = None
    /\ summary_code = None
    /\ exit_code = None
    /\ exit_via = ""

RetryIdle == rw = [pc |-> "off"]

ConnIdle ==
    /\ max_connections = 0
    /\ pool = <<>>
    /\ sessions = <<>>
    /\ th = <<>>
    /\ begun = 0

CredIdle ==
    /\ credentials_cache = <<>>
    /\ cred_calls = 0
    /\ last_cred = None

BatchIdle ==
    /\ batch = [pc |-> "off"]
    /\ known_devices = <<>>
    /\ discovered_devices = <<>>
    /\ task = <<>>
    /\ harvested = {}
    /\ discovered = <<>>
    /\ health_data = <<>>
    /\ failures = {}
    /\ summary = None
    /\ inventory_file = None

HealthIdle == dh = [pc |-> "off"]

MonitorIdle ==
    /\ mpc = "off"
    /\ monitor_args = [send_alerts |-> FALSE, writable |-> FALSE, devices |-> 0,
                       loaded |-> <<>>]
    /\ monitor_health = <<>>
    /\ historical_data = <<>>
    /\ history_file = <<>>
    /\ now = 0
    /\ saved = FALSE
    /\ health_summary = None
    /\ notifications = <<>>
    /\ health_exit = None

NotifyIdle == nm = [pc |-> "off"]

RangesIdle == rg = [pc |-> "off"]

SingleIdle == sd = [pc |-> "off"]

DetectIdle == dt = [pc |-> "off"]

ProgressIdle == pt = [pc |-> "off"]

InterfacesIdle == im = [pc |-> "off"]

UptimeIdle == ut = [pc |-> "off"]

InventoryIdle == inv = [pc |-> "off"]

RequestsIdle == ct = [pc |-> "off"]

UnitsIdle ==
    /\ SingleIdle /\ DetectIdle /\ ProgressIdle /\ InterfacesIdle
    /\ UptimeIdle /\ InventoryIdle /\ RequestsIdle

CoreIdle == SuiteIdle /\ RetryIdle /\ ConnIdle /\ CredIdle /\ BatchIdle
ToolsIdle == HealthIdle /\ MonitorIdle /\ NotifyIdle /\ RangesIdle /\ UnitsIdle
AllToolsIdle == HealthIdle /\ MonitorIdle /\ NotifyIdle /\ RangesIdle

----------------------------------------------------------------------------
(* Bounds *)

\* at most this many individual tool flags on the command line (--all is
\* always available and selects all seven)
MaxFlags == 2
\* exit codes a tool's entry function may pass to sys.exit: 0..MaxExitCode
MaxExitCode == 2

----------------------------------------------------------------------------
(* Suite runner: run_monitoring.py *)

AllScripts == <<"discovery", "health", "port", "vlan", "interface", "change", "stp">>
ScriptNames == {AllScripts[i] : i \in 1..Len(AllScripts)}
StubTools == {"port", "vlan", "interface", "change", "stp"}

RECURSIVE FilterSeq(_, _)
FilterSeq(s, keep) ==
    IF s = <<>> THEN <<>>
    ELSE IF Head(s) \in keep THEN <<Head(s)>> \o FilterSeq(Tail(s), keep)
         ELSE FilterSeq(Tail(s), keep)

SeqToSet(s) == {s[i] : i \in 1..Len(s)}

\* main(), lines 313-332: --all gives the fixed list, otherwise one append per
\* flag in the fixed order of the if statements
ScriptsToRun(args) ==
    IF args.all THEN AllScripts ELSE FilterSeq(AllScripts, args.flags)

\* main(), lines 339-360: a value of 0 for --max-workers / --timeout is falsy
\* and is not forwarded; --continuous and --interval only with change selected
CommonArgs(args, scripts) ==
    <<"--output-formats">>
    \o (IF args.max_workers # 0 THEN <<"--max-workers">> ELSE <<>>)
    \o (IF args.timeout # 0 THEN <<"--timeout">> ELSE <<>>)
    \o (IF "--site" \in args.filters THEN <<"--site">> ELSE <<>>)
    \o (IF "--vendor" \in args.filters THEN <<"--vendor">> ELSE <<>>)
    \o (IF "--role" \in args.filters THEN <<"--role">> ELSE <<>>)
    \o (IF args.send_alerts THEN <<"--send-alerts">> ELSE <<>>)
    \o (IF args.continuous /\ "change" \in SeqToSet(scripts)
        THEN <<"--continuous", "--interval">> ELSE <<>>)
    \o (IF args.verbose THEN <<"--verbose">> ELSE <<>>)

\* run_monitoring_suite(), lines 145-146, and run_script(), line 90
ScriptArgv(common) == <<"script">> \o common \o <<"--config">>

\* the argument vector the runner was started with: its name, then --all
\* or the tool flags given
ProcessArgv(args) ==
    <<"run_monitoring.py">>
    \o (IF args.all THEN <<"--all">> ELSE <<>>)
    \o FilterSeq(AllScripts, args.flags)

(* What an entry function can do when called: return, sys.exit(code), raise
   an Exception, or be interrupted (KeyboardInterrupt is not an Exception). *)
Return == [kind |-> "return", code |-> None, msg |-> None]
Exit(c) == [kind |-> "exit", code |-> c, msg |-> None]
Raise(m) == [kind |-> "raise", code |-> None, msg |-> Some(m)]
Interrupt == [kind |-> "interrupt", code |-> None, msg |-> None]

ExitCodes == {None} \cup {Some(n) : n \in 0..MaxExitCode}
AnyOutcome == {Return, Raise("boom"), Interrupt} \cup {Exit(c) : c \in ExitCodes}

\* variant: the argument vector restored at the end of the try block and
\* of the two except clauses instead of in a finally clause
RestoreArgvWhenCaught(o, original, current) ==
    IF o.kind \in {"return", "exit", "raise"} THEN original ELSE current

\* run_script(), lines 111-113: the finally clause, run for every outcome
RestoreArgv(o, original, current) == original

\* variant: run_script without the SystemExit clause
CaughtExceptionsOnly(o) == o.kind \in {"return", "raise"}

\* run_script(), lines 98 and 106: the except clauses
Caught(o) == o.kind \in {"return", "exit", "raise"}

\* variant: every non-zero exit code classified as error
ClassifyNonZeroAsError(o) ==
    CASE o.kind = "return" -> "success"
      [] o.kind = "exit" ->
            IF o.code = None \/ o.code = Some(0) THEN "success" ELSE "error"
      [] o.kind = "raise" -> "error"
      [] OTHER -> "unknown"

\* run_script(), lines 95-105 and 107: the status of a run
Classify(o) ==
    CASE o.kind = "return" -> "success"
      [] o.kind = "exit" ->
            IF o.code = None \/ o.code = Some(0) THEN "success"
            ELSE IF o.code = Some(1) THEN "warning"
            ELSE "error"
      [] o.kind = "raise" -> "error"
      [] OTHER -> "unknown"

\* run_script(), lines 78-110: the result record (duration left out)
RunScriptResult(name, o) ==
    [name |-> name,
     status |-> Classify(o),
     exit_code |-> CASE o.kind = "exit" -> (IF o.code = None THEN 0 ELSE o.code[1])
                     [] o.kind = "raise" -> 1
                     [] OTHER -> 0,
     error |-> IF o.kind = "raise" THEN o.msg ELSE None]

CountStatus(res, s) == Cardinality({t \in DOMAIN res : res[t].status = s})

\* variant: the warning test made before the error test
OverallCodeWarningFirst(res) ==
    IF CountStatus(res, "warning") > 0 THEN 1
    ELSE IF CountStatus(res, "error") > 0 THEN 2
    ELSE 0

\* generate_summary_report(), lines 195-204, and main(), lines 370-378
OverallCode(res) ==
    IF CountStatus(res, "error") > 0 THEN 2
    ELSE IF CountStatus(res, "warning") > 0 THEN 1
    ELSE 0

(* The seven entry points as shipped: scripts/*.py main() *)

\* the options each tool's argparse parser declares
Accepted(tool) ==
    CASE tool = "discovery" ->
            {"--ranges", "--config", "--output-formats", "--incremental",
             "--max-workers", "--timeout", "--site", "--vendor", "--role", "--verbose"}
      [] tool = "health" ->
            {"--config", "--output-formats", "--max-workers", "--timeout", "--site",
             "--vendor", "--role", "--send-alerts", "--dashboard-only", "--verbose"}
      [] tool = "port" ->
            {"--config", "--output-formats", "--unused-only", "--verbose"}
      [] tool = "vlan" ->
            {"--config", "--output-formats", "--consistency-only", "--send-alerts",
             "--verbose"}
      [] tool = "interface" ->
            {"--config", "--output-formats", "--errors-only", "--send-alerts",
             "--verbose"}
      [] tool = "change" ->
            {"--config", "--output-formats", "--continuous", "--interval",
             "--config-only", "--send-alerts", "--verbose"}
      [] OTHER ->
            {"--config", "--output-formats", "--topology-only", "--send-alerts",
             "--verbose"}

\* options declared with required=True
Required(tool) == IF tool = "discovery" THEN {"--ranges"} ELSE {}

\* parser.parse_args(): an undeclared option or a missing required one makes
\* argparse print usage and exit with status 2
ParseAccepts(tool, argv) ==
    /\ SeqToSet(Tail(argv)) \subseteq Accepted(tool)
    /\ Required(tool) \subseteq SeqToSet(Tail(argv))

\* the body of a stub's main(): load_config raises when the file cannot be
\* loaded (no handler in the stub), otherwise sys.exit(0)
StubBody(config_ok) ==
    IF config_ok THEN {Exit(Some(0))}
    ELSE {Raise("Configuration file not found")}

\* health_check.main(): every failure inside the try block exits 1; a
\* completed run exits 2, 1 or 0 by the devices' status distribution
HealthBody(config_ok) ==
    IF config_ok THEN {Exit(Some(0)), Exit(Some(1)), Exit(Some(2))}
    ELSE {Exit(Some(1))}

\* device_discovery.main(): every failure inside the try block exits 1; a
\* completed run returns
DiscoveryBody(config_ok) ==
    IF config_ok THEN {Return, Exit(Some(1))}
    ELSE {Exit(Some(1))}

\* the outcomes of calling a tool's main() under the given argument vector
ToolMain(tool, argv, config_ok) ==
    IF ~ParseAccepts(tool, argv) THEN {Exit(Some(2))}
    ELSE IF tool \in StubTools THEN StubBody(config_ok)
    ELSE IF tool = "health" THEN HealthBody(config_ok)
    ELSE DiscoveryBody(config_ok)

DefaultMaxWorkers == 10
DefaultTimeout == 60

FlagSets == {f \in SUBSET ScriptNames : Cardinality(f) <= MaxFlags}

\* command lines and environments of the suite as shipped
SuiteInputs ==
    [all : {FALSE}, flags : FlagSets,
     max_workers : {0, DefaultMaxWorkers}, timeout : {0, DefaultTimeout},
     filters : {{}, {"--site"}, {"--vendor"}, {"--role"}},
     send_alerts : BOOLEAN, continuous : BOOLEAN, verbose : BOOLEAN,
     config_ok : BOOLEAN]
    \cup
    [all : {TRUE}, flags : {{}},
     max_workers : {0, DefaultMaxWorkers}, timeout : {0, DefaultTimeout},
     filters : {{}, {"--site"}, {"--vendor"}, {"--role"}},
     send_alerts : BOOLEAN, continuous : BOOLEAN, verbose : BOOLEAN,
     config_ok : BOOLEAN]

\* command lines with every option at its default
DefaultInputs ==
    {a \in SuiteInputs :
        /\ a.max_workers = DefaultMaxWorkers /\ a.timeout = DefaultTimeout
        /\ a.filters = {} /\ ~a.send_alerts /\ ~a.continuous /\ ~a.verbose
        /\ a.config_ok}

SuiteStart(inputs) ==
    /\ cli \in inputs
    /\ pc = "start"
    /\ scripts_to_run = <<>>
    /\ common_args = <<>>
    /\ idx = 0
    /\ sys_argv = ProcessArgv(cli)
    /\ original_argv = <<>>
    /\ results = <<>>
    /\ started = <<>>
    /\ last_outcome = None
    /\ summary_code = None
    /\ exit_code = None
    /\ exit_via = ""

\* main(), lines 311-360: parse, select, translate
ParseArgs ==
    /\ pc = "start"
    /\ scripts_to_run' = ScriptsToRun(cli)
    /\ IF scripts_to_run' = <<>>
       THEN /\ pc' = "exited" /\ exit_code' = Some(1) /\ exit_via' = "no_selection"
            /\ UNCHANGED common_args
       ELSE /\ pc' = "init" /\ UNCHANGED <<exit_code, exit_via>>
            /\ common_args' = CommonArgs(cli, scripts_to_run')
    /\ UNCHANGED <<cli, idx, sys_argv, original_argv, results, started, last_outcome,
                   summary_code>>
    /\ UNCHANGED notSuite

\* main(), line 364, MonitoringSuite.__init__ and the first lines of
\* run_monitoring_suite(); opening the log file under logs/ can fail, which
\* main() reports with exit status 1
InitSuiteOk ==
    /\ pc = "init"
    /\ pc' = "loop" /\ idx' = 1 /\ results' = <<>>
    /\ UNCHANGED <<cli, scripts_to_run, common_args, sys_argv, original_argv, started,
                   last_outcome, summary_code, exit_code, exit_via>>
    /\ UNCHANGED notSuite

InitSuiteFails ==
    /\ pc = "init"
    /\ pc' = "exited" /\ exit_code' = Some(1) /\ exit_via' = "fatal"
    /\ UNCHANGED <<cli, scripts_to_run, common_args, idx, sys_argv, original_argv,
                   results, started, last_outcome, summary_code>>
    /\ UNCHANGED notSuite

\* run_script(), lines 87-93: save the argument vector, substitute the
\* tool's, call the entry function
StartScript ==
    /\ pc = "loop" /\ idx <= Len(scripts_to_run)
    /\ original_argv' = sys_argv
    /\ sys_argv' = ScriptArgv(common_args)
    /\ started' = Append(started, scripts_to_run[idx])
    /\ pc' = "script"
    /\ UNCHANGED <<cli, scripts_to_run, common_args, idx, results, last_outcome,
                   summary_code, exit_code, exit_via>>
    /\ UNCHANGED notSuite

\* run_script(), lines 95-117, and run_monitoring_suite(), line 150: the
\* entry function ends with outcome o.  A caught outcome is classified and
\* the loop goes on.  An outcome run_script does not catch leaves through
\* the finally clause: an interrupt is caught by main() (exit 1), a process
\* exit ends the process with its own code.
EndScript(o) ==
    /\ sys_argv' = RestoreArgv(o, original_argv, sys_argv)
    /\ IF Caught(o)
       THEN /\ results' = (scripts_to_run[idx] :> RunScriptResult(scripts_to_run[idx], o))
                          @@ results
            /\ idx' = idx + 1
            /\ pc' = "loop"
            /\ UNCHANGED <<exit_code, exit_via>>
       ELSE /\ pc' = "exited"
            /\ exit_code' = IF o.kind = "exit"
                            THEN Some(IF o.code = None THEN 0 ELSE o.code[1])
                            ELSE Some(1)
            /\ exit_via' = IF o.kind = "exit" THEN "uncaught_exit" ELSE "interrupt"
            /\ UNCHANGED <<results, idx>>
    /\ last_outcome' = Some(o)
    /\ UNCHANGED <<cli, scripts_to_run, common_args, original_argv, started, summary_code>>
    /\ UNCHANGED notSuite

\* the entry function is one of the seven shipped tools
FinishTool ==
    /\ pc = "script"
    /\ \E o \in ToolMain(scripts_to_run[idx], sys_argv, cli.config_ok) : EndScript(o)

\* the entry function is any callable
FinishCallable ==
    /\ pc = "script"
    /\ \E o \in AnyOutcome : EndScript(o)

\* run_monitoring_suite(), line 155: generate_summary_report; saving the
\* summary file is wrapped in its own try/except
Summary ==
    /\ pc = "loop" /\ idx > Len(scripts_to_run)
    /\ summary_code' = Some(OverallCode(results))
    /\ pc' = "final"
    /\ UNCHANGED <<cli, scripts_to_run, common_args, idx, sys_argv, original_argv,
                   results, started, last_outcome, exit_code, exit_via>>
    /\ UNCHANGED notSuite

\* main(), lines 370-378
ExitWithStatus ==
    /\ pc = "final"
    /\ exit_code' = Some(OverallCode(results))
    /\ exit_via' = "status"
    /\ pc' = "exited"
    /\ UNCHANGED <<cli, scripts_to_run, common_args, idx, sys_argv, original_argv,
                   results, started, last_outcome, summary_code>>
    /\ UNCHANGED notSuite

----------------------------------------------------------------------------
(* Retry wrapper: utils/common.py, retry_on_failure *)

\* largest max_attempts, delay and backoff a wrapper is built with
MaxAttempts == 3
MaxDelay == 2
MaxBackoff == 2

\* the default of the exceptions parameter, line 59
DefaultRetryable == {"NetmikoTimeoutException", "socket.timeout"}

\* what one call of the wrapped function does: return a value or raise
TargetOutcomes == {"ok", "NetmikoTimeoutException", "socket.timeout", "Exception"}

\* variant: the last attempt's failure is followed by a sleep and one more try
OnFailureOneMore(exc, retryable, attempt, max_attempts) ==
    IF exc \in retryable
    THEN IF attempt = max_attempts + 1 THEN "raise" ELSE "sleep"
    ELSE "raise"

\* variant: every failure kind is retried
OnFailureRetryAll(exc, retryable, attempt, max_attempts) ==
    IF attempt = max_attempts THEN "raise" ELSE "sleep"

\* wrapper(), lines 78-86: what the wrapper does when the call raised exc.
\* Only the kinds in retryable enter the except clause; there the last
\* attempt re-raises and an earlier one sleeps and goes round again.
OnFailure(exc, retryable, attempt, max_attempts) ==
    IF exc \in retryable
    THEN IF attempt = max_attempts THEN "raise" ELSE "sleep"
    ELSE "raise"

RetryInputs ==
    [max_attempts : 0..MaxAttempts, delay : 1..MaxDelay, backoff : 1..MaxBackoff]

\* wrapper(), lines 72-73
RetryStart(p) ==
    [max_attempts |-> p.max_attempts, delay |-> p.delay, backoff |-> p.backoff,
     attempt |-> 1, current_delay |-> p.delay, pc |-> "loop",
     outcomes |-> <<>>,   \* history: what each call of the target did
     sleeps |-> <<>>,     \* history: the argument of each time.sleep
     result |-> None,     \* the value returned to the caller
     raised |-> 0]        \* the call whose failure reached the caller (0: none)

\* wrapper(), lines 75-81: one pass of the loop, up to the return, the raise
\* or the decision to sleep
RetryCall ==
    /\ rw.pc = "loop" /\ rw.attempt <= rw.max_attempts
    /\ \E o \in TargetOutcomes :
         LET called == [rw EXCEPT !.outcomes = Append(@, o)]
         IN IF o = "ok"
            THEN rw' = [called EXCEPT !.pc = "returned", !.result = Some("value")]
            ELSE IF OnFailure(o, DefaultRetryable, rw.attempt, rw.max_attempts) = "raise"
                 THEN rw' = [called EXCEPT !.pc = "raised", !.raised = Len(called.outcomes)]
                 ELSE rw' = [called EXCEPT !.pc = "sleep"]
    /\ UNCHANGED notRetry

\* wrapper(), lines 83-86
RetrySleep ==
    /\ rw.pc = "sleep"
    /\ rw' = [rw EXCEPT !.sleeps = Append(@, rw.current_delay),
                        !.current_delay = @ * rw.backoff,
                        !.attempt = @ + 1,
                        !.pc = "loop"]
    /\ UNCHANGED notRetry

\* wrapper(), line 88: the loop ended without a call (max_attempts < 1)
RetryLoopEnds ==
    /\ rw.pc = "loop" /\ rw.attempt > rw.max_attempts
    /\ rw' = [rw EXCEPT !.pc = "returned", !.result = None]
    /\ UNCHANGED notRetry

InitRetry ==
    /\ SuiteIdle /\ ConnIdle /\ CredIdle /\ BatchIdle /\ ToolsIdle
    /\ \E p \in RetryInputs : rw = RetryStart(p)

NextRetry == RetryCall \/ RetrySleep \/ RetryLoopEnds

SpecRetry == InitRetry /\ [][NextRetry]_vars

RECURSIVE Pow(_, _)
Pow(b, e) == IF e = 0 THEN 1 ELSE b * Pow(b, e - 1)

Calls == Len(rw.outcomes)
FailedFirst(k) == \A i \in 1..k : rw.outcomes[i] \in DefaultRetryable
ExpectedSleeps(k) == [i \in 1..k |-> rw.delay * Pow(rw.backoff, i - 1)]

\* C5: with max_attempts = N >= 1 and retryable failures, a target that
\* fails k < N times and then succeeds is called k+1 times, the sleeps are
\* delay, delay*backoff, ..., delay*backoff^(k-1), and the success value is
\* returned; a target that fails N times is called N times, there are N-1
\* sleeps, none after the last failure, and the last failure is re-raised.
C5_RetrySchedule ==
    /\ (rw.pc = "returned" /\ rw.max_attempts >= 1) =>
          LET k == Calls - 1
          IN /\ k < rw.max_attempts
             /\ FailedFirst(k) /\ rw.outcomes[k + 1] = "ok"
             /\ rw.sleeps = ExpectedSleeps(k)
             /\ rw.result = Some("value")
    /\ (rw.pc = "raised" /\ FailedFirst(Calls)) =>
          /\ Calls = rw.max_attempts
          /\ rw.sleeps = ExpectedSleeps(rw.max_attempts - 1)
          /\ rw.raised = rw.max_attempts
    /\ (rw.pc \in {"loop", "sleep"}) =>
          /\ FailedFirst(Calls)
          /\ Calls < rw.max_attempts \/ rw.max_attempts = 0
    /\ rw.pc = "sleep" => Len(rw.sleeps) = Calls - 1
    /\ rw.pc = "loop" => Len(rw.sleeps) = Calls

\* two failures, sleeps of 1 and 2 seconds, then success on the third call
C5_Witness ==
    /\ rw.pc = "returned" /\ rw.max_attempts = 3 /\ rw.delay = 1 /\ rw.backoff = 2
    /\ Calls = 3 /\ rw.sleeps = <<1, 2>> /\ rw.result = Some("value")

\* C18: a failure of a kind that is not retryable reaches the caller from
\* the call that raised it: it is the last call of the target, the wrapper
\* did not sleep after it and only the sleeps that followed the earlier,
\* retryable failures were made.
C18_NonRetryablePropagates ==
    \A i \in 1..Calls :
        rw.outcomes[i] \notin DefaultRetryable \cup {"ok"} =>
            /\ i = Calls
            /\ rw.pc = "raised" /\ rw.raised = i
            /\ rw.sleeps = ExpectedSleeps(i - 1)

\* the first call failed with a retryable kind, the second with another kind
\* although a third attempt was left: one sleep, two calls, failure raised
C18_Witness ==
    /\ rw.max_attempts = 3 /\ rw.pc = "raised"
    /\ rw.outcomes = <<"socket.timeout", "Exception">>
    /\ Len(rw.sleeps) = 1 /\ rw.raised = 2

----------------------------------------------------------------------------
(* Connection manager: utils/common.py, ConnectionManager *)

\* threads that call into one ConnectionManager, and the device keys
\* ("host:port") they ask for
NumThreads == 2
NumKeys == 2
\* largest configured max_connections
MaxPool == 1
\* create_connection calls begun in one run
MaxCalls == 2

Threads == 1..NumThreads
Keys == 1..NumKeys

\* the decorator's arguments at line 104
ConnMaxAttempts == 3
ConnDelay == 2
ConnBackoff == 2

\* what ConnectHandler(**device_config) does: a session or an exception
ConnectOutcomes ==
    {"ok", "NetmikoTimeoutException", "NetmikoAuthenticationException", "Exception"}

\* create_connection(), lines 152-160: the exception the body raises for a
\* failure of ConnectHandler or of enable()
Translate(exc) ==
    IF exc = "NetmikoAuthenticationException" THEN "CredentialError"
    ELSE "ConnectionError"

\* variant: the cache step without the size test
MayCacheAlways(p, limit) == TRUE

\* create_connection(), line 147
MayCache(p, limit) == Cardinality(DOMAIN p) < limit

Without(f, k) == [x \in DOMAIN f \ {k} |-> f[x]]

\* variant: the pooled session is returned without asking whether it is alive
PoolLookupAnyState(p, sess, k) ==
    IF k \in DOMAIN p THEN "hit" ELSE "miss"

\* create_connection(), lines 121-127: what the pool holds for the key
PoolLookup(p, sess, k) ==
    IF k \in DOMAIN p
    THEN IF sess[p[k]].state = "alive" THEN "hit" ELSE "stale"
    ELSE "miss"

IdleThread == [pc |-> "idle"]

ConnStart ==
    /\ max_connections \in 1..MaxPool
    /\ pool = <<>>
    /\ sessions = <<>>
    /\ th = [t \in Threads |-> IdleThread]
    /\ begun = 0

\* a thread calls create_connection: wrapper(), lines 72-73
ConnBegin(t) ==
    /\ th[t].pc = "idle" /\ begun < MaxCalls
    /\ \E k \in Keys, e \in BOOLEAN :
         th' = [th EXCEPT ![t] =
                  [pc |-> "check", key |-> k, enable |-> e, attempt |-> 1,
                   current_delay |-> ConnDelay,
                   conn |-> 0,          \* the session opened by this call
                   opens |-> 0,         \* history: calls of ConnectHandler
                   sleeps |-> <<>>,     \* history: the wrapper's sleeps
                   cause |-> "",        \* history: what ConnectHandler raised last
                   error |-> "",        \* the exception that reached the caller
                   result |-> 0,        \* the session returned
                   from_pool |-> FALSE,
                   pooled |-> 0,        \* history: the session the pool held for
                                        \* the key when it was looked up (0: none)
                   pooled_state |-> ""]] \* history: the state of that session then
    /\ begun' = begun + 1
    /\ UNCHANGED <<max_connections, pool, sessions>>
    /\ UNCHANGED notConn

\* create_connection(), lines 120-127, under the lock
ConnCheck(t) ==
    /\ th[t].pc = "check"
    /\ LET k == th[t].key
           found == PoolLookup(pool, sessions, k)
           seen == IF k \in DOMAIN pool
                   THEN [th EXCEPT ![t].pooled = pool[k],
                                   ![t].pooled_state = sessions[pool[k]].state]
                   ELSE th
       IN CASE found = "hit" ->
                 /\ th' = [seen EXCEPT ![t].pc = "done", ![t].result = pool[k],
                                       ![t].from_pool = TRUE]
                 /\ UNCHANGED pool
            [] found = "stale" ->
                 /\ pool' = Without(pool, k)
                 /\ th' = [seen EXCEPT ![t].pc = "open"]
            [] OTHER ->
                 /\ th' = [seen EXCEPT ![t].pc = "open"]
                 /\ UNCHANGED pool
    /\ UNCHANGED <<max_connections, sessions, begun>>
    /\ UNCHANGED notConn

\* what the wrapper does with an exception raised by the body: lines 78-86
ConnFailure(t, cause, exc) ==
    IF OnFailure(exc, DefaultRetryable, th[t].attempt, ConnMaxAttempts) = "raise"
    THEN [th EXCEPT ![t].pc = "failed", ![t].error = exc, ![t].cause = cause,
                    ![t].opens = @ + 1]
    ELSE [th EXCEPT ![t].pc = "check", ![t].cause = cause, ![t].opens = @ + 1,
                    ![t].sleeps = Append(@, th[t].current_delay),
                    ![t].current_delay = @ * ConnBackoff,
                    ![t].attempt = @ + 1]

\* create_connection(), lines 130-140 and 152-160: ConnectHandler
ConnOpen(t) ==
    /\ th[t].pc = "open"
    /\ \E o \in ConnectOutcomes :
         IF o = "ok"
         THEN /\ sessions' = Append(sessions, [key |-> th[t].key, state |-> "alive"])
              /\ th' = [th EXCEPT ![t].conn = Len(sessions) + 1,
                                  ![t].opens = @ + 1,
                                  ![t].pc = IF th[t].enable THEN "enable" ELSE "cache"]
         ELSE /\ th' = ConnFailure(t, o, Translate(o))
              /\ UNCHANGED sessions
    /\ UNCHANGED <<max_connections, pool, begun>>
    /\ UNCHANGED notConn

\* create_connection(), lines 142-143 and 158-160: connection.enable()
ConnEnable(t) ==
    /\ th[t].pc = "enable"
    /\ \/ th' = [th EXCEPT ![t].pc = "cache"]
       \/ th' = [th EXCEPT ![t].pc = "failed", ![t].error = Translate("Exception"),
                           ![t].cause = "enable"]
    /\ UNCHANGED <<max_connections, pool, sessions, begun>>
    /\ UNCHANGED notConn

\* create_connection(), lines 146-150, under the lock
ConnCache(t) ==
    /\ th[t].pc = "cache"
    /\ IF MayCache(pool, max_connections)
       THEN pool' = (th[t].key :> th[t].conn) @@ pool
       ELSE UNCHANGED pool
    /\ th' = [th EXCEPT ![t].pc = "done", ![t].result = th[t].conn]
    /\ UNCHANGED <<max_connections, sessions, begun>>
    /\ UNCHANGED notConn

\* the caller goes on after the call returned or raised
ConnReturn(t) ==
    /\ th[t].pc \in {"done", "failed"}
    /\ th' = [th EXCEPT ![t] = IdleThread]
    /\ UNCHANGED <<max_connections, pool, sessions, begun>>
    /\ UNCHANGED notConn

\* close_all_connections(), lines 164-170, under the lock
CloseAll ==
    /\ pool # <<>>
    /\ sessions' = [i \in DOMAIN sessions |->
                      IF i \in {pool[k] : k \in DOMAIN pool}
                      THEN [sessions[i] EXCEPT !.state = "disconnected"]
                      ELSE sessions[i]]
    /\ pool' = <<>>
    /\ UNCHANGED <<max_connections, th, begun>>
    /\ UNCHANGED notConn

\* the remote end drops a pooled session: is_alive() turns false (the
\* manager never looks at the state of a session that is not in the pool)
SessionDies ==
    /\ \E i \in {pool[k] : k \in DOMAIN pool} :
         /\ sessions[i].state = "alive"
         /\ sessions' = [sessions EXCEPT ![i].state = "dead"]
    /\ UNCHANGED <<max_connections, pool, th, begun>>
    /\ UNCHANGED notConn

InitConn == SuiteIdle /\ RetryIdle /\ ConnStart /\ CredIdle /\ BatchIdle /\ ToolsIdle

NextConn ==
    \/ \E t \in Threads : ConnBegin(t)
    \/ \E t \in Threads : ConnCheck(t)
    \/ \E t \in Threads : ConnOpen(t)
    \/ \E t \in Threads : ConnEnable(t)
    \/ \E t \in Threads : ConnCache(t)
    \/ \E t \in Threads : ConnReturn(t)
    \/ CloseAll
    \/ SessionDies

SpecConn == InitConn /\ [][NextConn]_vars

\* C6 as claimed: a create_connection call that reports a failure whose
\* cause was a timeout of the session open has made three attempts, with
\* sleeps of 2 and 4 seconds between them.
C6_TimeoutRetriedThreeTimes ==
    \A t \in Threads :
        (th[t].pc = "failed" /\ th[t].cause = "NetmikoTimeoutException") =>
            (th[t].opens = ConnMaxAttempts /\ th[t].sleeps = <<ConnDelay, ConnDelay * ConnBackoff>>)

\* C7: the pool never holds more than max_connections sessions.
C7_PoolBounded == Cardinality(DOMAIN pool) <= max_connections

\* the pool is full and a thread holding a freshly opened session for
\* another key is about to run the cache step
C7_Witness ==
    /\ Cardinality(DOMAIN pool) = max_connections
    /\ \E t \in Threads : th[t].pc = "cache" /\ th[t].key \notin DOMAIN pool
    /\ \E u \in Threads : th[u].pc = "done" /\ ~th[u].from_pool

\* C19: a call that found an alive session pooled for its key returns that
\* session and calls ConnectHandler not once; a call that found a dead one
\* has taken it out of the pool and goes on to open a new session, which is
\* the one it returns.
C19_PooledSessionReused ==
    \A t \in Threads :
        /\ (th[t].pc # "idle" /\ th[t].pooled_state = "alive") =>
              /\ th[t].pc = "done" /\ th[t].from_pool
              /\ th[t].result = th[t].pooled
              /\ th[t].opens = 0 /\ th[t].conn = 0
              /\ sessions[th[t].result].key = th[t].key
        /\ (th[t].pc # "idle" /\ th[t].pooled_state \in {"dead", "disconnected"}) =>
              /\ th[t].key \in DOMAIN pool => pool[th[t].key] # th[t].pooled
              /\ th[t].pc \in {"open", "enable", "cache", "done", "failed"}
              /\ ~th[t].from_pool
              /\ th[t].pc \in {"enable", "cache", "done"} =>
                    /\ th[t].opens = 1 /\ th[t].conn > th[t].pooled
                    /\ sessions[th[t].conn].key = th[t].key
              /\ th[t].pc = "done" => th[t].result = th[t].conn

\* a call found a dead session pooled for its key, opened a new one and
\* returned it, and the new one is now pooled for the key
C19_Witness ==
    \E t \in Threads :
        /\ th[t].pc = "done" /\ th[t].pooled_state = "dead"
        /\ th[t].result # th[t].pooled
        /\ th[t].key \in DOMAIN pool /\ pool[th[t].key] = th[t].result

----------------------------------------------------------------------------
(* Credential manager: utils/common.py, CredentialManager *)

\* get_credentials calls in one run
MaxCredCalls == 2

\* Python truthiness of an optional string: None and "" are falsy
Truthy(x) == x # None /\ x # Some("")

\* a or b
Or(a, b) == IF Truthy(a) THEN a ELSE b

\* the values of the call's arguments, of the environment and of what the
\* user types at the two prompts
UsernameArgs == {None, Some("alice")}
CredEnvs ==
    [NETWORK_USERNAME : {None, Some("bob")}, DEFAULT_USERNAME : {None, Some("carol")},
     NETWORK_PASSWORD : {None, Some("np")}, DEFAULT_PASSWORD : {None, Some("dp")},
     ENABLE_PASSWORD : {None, Some("en")}, DEFAULT_SECRET : {None, Some("ds")}]
TypedUsernames == {Some(""), Some("alice")}
TypedPasswords == {Some(""), Some("tp")}

\* variant: the environment is consulted before the explicit argument
ResolveUsernameEnvFirst(username, prompt, env, typed) ==
    LET from_env == Or(Or(env.NETWORK_USERNAME, env.DEFAULT_USERNAME), username)
    IN IF ~Truthy(from_env) /\ prompt THEN typed ELSE from_env

\* get_credentials(), lines 193-196
ResolveUsername(username, prompt, env, typed) ==
    IF Truthy(username) THEN username
    ELSE LET from_env == Or(env.NETWORK_USERNAME, env.DEFAULT_USERNAME)
         IN IF ~Truthy(from_env) /\ prompt THEN typed ELSE from_env

\* get_credentials(), line 196: whether input() is called
AsksUsername(username, prompt, env) ==
    ~Truthy(username) /\ ~Truthy(Or(env.NETWORK_USERNAME, env.DEFAULT_USERNAME)) /\ prompt

\* get_credentials(), lines 203-208
ResolvePassword(prompt, env, typed) ==
    LET from_env == Or(env.NETWORK_PASSWORD, env.DEFAULT_PASSWORD)
    IN IF ~Truthy(from_env) /\ prompt THEN typed ELSE from_env

\* get_credentials(), line 207: whether getpass() is called
AsksPassword(prompt, env) ==
    ~Truthy(Or(env.NETWORK_PASSWORD, env.DEFAULT_PASSWORD)) /\ prompt

\* get_credentials(), lines 213-219: the credential set; the secret key is
\* present only when a secret was found (None stands for the absent key)
MakeCredentials(user, password, env) ==
    LET secret == Or(env.ENABLE_PASSWORD, env.DEFAULT_SECRET)
    IN [username |-> user, password |-> password,
        secret |-> IF Truthy(secret) THEN secret ELSE None]

CredStart ==
    /\ credentials_cache = <<>>
    /\ cred_calls = 0
    /\ last_cred = None

\* get_credentials(), lines 192-222, one whole call
GetCredentials ==
    /\ cred_calls < MaxCredCalls
    /\ \E username \in UsernameArgs, prompt \in BOOLEAN, env \in CredEnvs :
       \E typed_user \in (IF AsksUsername(username, prompt, env)
                           THEN TypedUsernames ELSE {None}),
          typed_pass \in (IF AsksPassword(prompt, env) THEN TypedPasswords ELSE {None}) :
         LET user == ResolveUsername(username, prompt, env, typed_user)
             asked_user == AsksUsername(username, prompt, env)
             hit == user \in DOMAIN credentials_cache
             password == ResolvePassword(prompt, env, typed_pass)
             call == [username |-> username, prompt |-> prompt,
                      env_usernames |-> <<env.NETWORK_USERNAME, env.DEFAULT_USERNAME>>,
                      typed_user |-> typed_user,
                      resolved |-> user,
                      cached_before |-> IF hit THEN Some(credentials_cache[user]) ELSE None,
                      asked_user |-> asked_user]
         IN IF hit
            THEN /\ last_cred' = Some(call @@
                                      [asked_password |-> FALSE, raised |-> FALSE,
                                       returned |-> Some(credentials_cache[user])])
                 /\ UNCHANGED credentials_cache
            ELSE IF ~Truthy(password)
            THEN /\ last_cred' = Some(call @@
                                      [asked_password |-> AsksPassword(prompt, env),
                                       raised |-> TRUE, returned |-> None])
                 /\ UNCHANGED credentials_cache
            ELSE /\ last_cred' = Some(call @@
                                      [asked_password |-> AsksPassword(prompt, env),
                                       raised |-> FALSE,
                                       returned |-> Some(MakeCredentials(user, password, env))])
                 /\ credentials_cache' =
                        (user :> MakeCredentials(user, password, env)) @@ credentials_cache
    /\ cred_calls' = cred_calls + 1
    /\ UNCHANGED notCred

InitCred == SuiteIdle /\ RetryIdle /\ ConnIdle /\ CredStart /\ BatchIdle /\ ToolsIdle

NextCred == GetCredentials

SpecCred == InitCred /\ [][NextCred]_vars

----------------------------------------------------------------------------
(* Batch runs: device_discovery.py discover_network, generate_summary_report,
   save_inventory; health_check.py check_all_devices *)

\* addresses of the network
NumAddresses == 2
Addresses == 1..NumAddresses

\* a device record: its key and where the record comes from
Device(ip, origin) == [ip_address |-> ip, origin |-> origin]

\* what a worker task can end with: discover_single_device returns a device
\* or None, check_device_health returns a health record, either may raise
TaskResults(tool) ==
    IF tool = "discovery" THEN {"device", "none", "raise"} ELSE {"health", "raise"}

BatchInputs ==
    [tool : {"discovery"}, incremental : BOOLEAN, known : SUBSET Addresses,
     asked : SUBSET Addresses]
    \cup
    [tool : {"health"}, incremental : {FALSE}, known : {{}}, asked : SUBSET Addresses]

\* DeviceDiscovery.__init__ with load_existing_inventory, lines 109-127, or
\* HealthMonitor with its configured devices
BatchStart ==
    \E b \in BatchInputs :
        /\ batch = [pc |-> "begin", tool |-> b.tool, incremental |-> b.incremental,
                    asked |-> b.asked, all_ips |-> {}]
        /\ known_devices = [ip \in b.known |-> Device(ip, "inventory")]
        /\ discovered_devices = <<>>
        /\ task = <<>>
        /\ harvested = {}
        /\ discovered = <<>>
        /\ health_data = <<>>
        /\ failures = {}
        /\ summary = None
        /\ inventory_file = None

\* discover_network(), lines 498-501: the incremental filter
ToScan(asked, incremental, known) ==
    IF incremental THEN asked \ DOMAIN known ELSE asked

\* discover_network(), lines 497-509, check_all_devices(), lines 258-263:
\* one task per address is handed to the worker pool
Submit ==
    /\ batch.pc = "begin"
    /\ LET ips == ToScan(batch.asked, batch.incremental, known_devices)
       IN /\ batch' = [batch EXCEPT !.pc = "harvest", !.all_ips = ips]
          /\ task' = [ip \in ips |-> [state |-> "running", result |-> "", late |-> FALSE]]
    /\ UNCHANGED <<known_devices, discovered_devices, harvested, discovered, health_data,
                   failures, summary, inventory_file>>
    /\ UNCHANGED notBatch

\* a task is still running when its wait bound (twice the operation timeout)
\* has passed
TaskOverdue(ip) ==
    /\ ip \in DOMAIN task
    /\ task[ip].state = "running" /\ ~task[ip].late
    /\ task' = [task EXCEPT ![ip].late = TRUE]
    /\ UNCHANGED <<batch, known_devices, discovered_devices, harvested, discovered,
                   health_data, failures, summary, inventory_file>>
    /\ UNCHANGED notBatch

\* a worker finishes its task
TaskFinish(ip) ==
    /\ ip \in DOMAIN task
    /\ task[ip].state = "running"
    /\ \E r \in TaskResults(batch.tool) :
         task' = [task EXCEPT ![ip].state = "finished", ![ip].result = r]
    /\ UNCHANGED <<batch, known_devices, discovered_devices, harvested, discovered,
                   health_data, failures, summary, inventory_file>>
    /\ UNCHANGED notBatch

\* as_completed(), called without a timeout, hands out a future only once
\* its task has finished
Completed(ip) == task[ip].state = "finished"

\* discover_network(), lines 516-518: the result of a future is kept when it
\* is a device; result(timeout=...) on a finished future never times out
Keeps(ip, result) == result = "device"

\* discover_network(), lines 513-523: one pass of the harvesting loop
HarvestDiscovery(ip) ==
    /\ batch.pc = "harvest" /\ batch.tool = "discovery"
    /\ ip \in batch.all_ips \ harvested /\ Completed(ip)
    /\ harvested' = harvested \cup {ip}
    /\ discovered' = IF Keeps(ip, task[ip].result)
                     THEN (ip :> Device(ip, "scan")) @@ discovered
                     ELSE discovered
    /\ failures' = IF task[ip].result = "raise" THEN failures \cup {ip} ELSE failures
    /\ UNCHANGED <<batch, known_devices, discovered_devices, task, health_data, summary,
                   inventory_file>>
    /\ UNCHANGED notBatch

\* check_all_devices(), lines 267-291: one pass of the harvesting loop
HarvestHealth(ip) ==
    /\ batch.pc = "harvest" /\ batch.tool = "health"
    /\ ip \in batch.all_ips \ harvested /\ Completed(ip)
    /\ harvested' = harvested \cup {ip}
    /\ health_data' =
          (ip :> IF task[ip].result = "raise"
                 THEN [device_ip |-> ip, errors |-> 1, overall_status |-> "UNKNOWN"]
                 ELSE [device_ip |-> ip, errors |-> 0, overall_status |-> "CHECKED"])
          @@ health_data
    /\ failures' = IF task[ip].result = "raise" THEN failures \cup {ip} ELSE failures
    /\ UNCHANGED <<batch, known_devices, discovered_devices, task, discovered, summary,
                   inventory_file>>
    /\ UNCHANGED notBatch

\* the loop ends when every future was handed out; leaving the executor's
\* with block waits for the workers; discover_network(), lines 525-528,
\* check_all_devices(), line 293
BatchReturn ==
    /\ batch.pc = "harvest"
    /\ harvested = batch.all_ips
    /\ \A ip \in batch.all_ips : Completed(ip)
    /\ discovered_devices' = discovered @@ discovered_devices
    /\ batch' = [batch EXCEPT !.pc = "returned"]
    /\ UNCHANGED <<known_devices, task, harvested, discovered, health_data, failures,
                   summary, inventory_file>>
    /\ UNCHANGED notBatch

\* save_inventory(), line 536, generate_summary_report(), line 575:
\* {**known, **discovered}
Merge(known, found) == found @@ known

\* generate_summary_report(), lines 573-606
Summarise ==
    /\ batch.pc = "returned" /\ batch.tool = "discovery"
    /\ summary' = Some([total_devices |->
                            Cardinality(DOMAIN Merge(known_devices, discovered_devices)),
                        newly_discovered |-> Cardinality(DOMAIN discovered_devices)])
    /\ batch' = [batch EXCEPT !.pc = "summarised"]
    /\ UNCHANGED <<known_devices, discovered_devices, task, harvested, discovered,
                   health_data, failures, inventory_file>>
    /\ UNCHANGED notBatch

\* save_inventory(), lines 530-571: the main inventory file
SaveInventory ==
    /\ batch.pc = "summarised"
    /\ inventory_file' = Some(Merge(known_devices, discovered_devices))
    /\ batch' = [batch EXCEPT !.pc = "saved"]
    /\ UNCHANGED <<known_devices, discovered_devices, task, harvested, discovered,
                   health_data, failures, summary>>
    /\ UNCHANGED notBatch

InitBatch == SuiteIdle /\ RetryIdle /\ ConnIdle /\ CredIdle /\ BatchStart /\ ToolsIdle

NextBatch ==
    \/ Submit
    \/ \E ip \in Addresses : TaskOverdue(ip)
    \/ \E ip \in Addresses : TaskFinish(ip)
    \/ \E ip \in Addresses : HarvestDiscovery(ip)
    \/ \E ip \in Addresses : HarvestHealth(ip)
    \/ BatchReturn
    \/ Summarise
    \/ SaveInventory

SpecBatch == InitBatch /\ [][NextBatch]_vars

\* C9 as claimed: after a discovery run the saved inventory is the union of
\* the loaded and the discovered devices by address, the scanned record
\* standing for an address found again, and newly_discovered is the number
\* of discovered addresses that the loaded inventory did not hold.
C9_MergeAndNewCount ==
    /\ inventory_file # None =>
          /\ DOMAIN inventory_file[1] = DOMAIN known_devices \cup DOMAIN discovered_devices
          /\ \A ip \in DOMAIN inventory_file[1] :
                inventory_file[1][ip] =
                    IF ip \in DOMAIN discovered_devices THEN Device(ip, "scan")
                    ELSE known_devices[ip]
    /\ summary # None =>
          summary[1].newly_discovered =
              Cardinality(DOMAIN discovered_devices \ DOMAIN known_devices)

HarvesterStep ==
    \/ BatchReturn
    \/ \E ip \in Addresses : HarvestDiscovery(ip)
    \/ \E ip \in Addresses : HarvestHealth(ip)

\* every task the loop still waits for is running past its wait bound
WaitsOnlyForOverdue ==
    /\ batch.pc = "harvest"
    /\ batch.all_ips \ harvested # {}
    /\ \A ip \in batch.all_ips \ harvested : task[ip].state = "running" /\ task[ip].late

\* C10 as claimed: a task that was still running when its wait bound passed
\* has its result discarded and is recorded as a failure by the harvesting
\* loop, and the loop does not go on waiting for such a task: when only
\* overdue tasks are outstanding it can take its next step.
C10_OverdueTaskDiscarded ==
    /\ \A ip \in harvested :
          task[ip].late =>
              /\ ip \in failures
              /\ ip \notin DOMAIN discovered
              /\ (ip \in DOMAIN health_data => health_data[ip].errors > 0)
    /\ WaitsOnlyForOverdue => ENABLED HarvesterStep

----------------------------------------------------------------------------
(* Specifications of the suite runner *)

\* the runner with the seven shipped tools
InitSuite ==
    SuiteStart(SuiteInputs) /\ RetryIdle /\ ConnIdle /\ CredIdle /\ BatchIdle /\ ToolsIdle

NextSuite ==
    \/ ParseArgs
    \/ InitSuiteOk
    \/ InitSuiteFails
    \/ StartScript
    \/ FinishTool
    \/ Summary
    \/ ExitWithStatus

SpecSuite == InitSuite /\ [][NextSuite]_vars

\* run_monitoring_suite / run_script with arbitrary callables as entry points
InitRunner ==
    SuiteStart(DefaultInputs) /\ RetryIdle /\ ConnIdle /\ CredIdle /\ BatchIdle /\ ToolsIdle

NextRunner ==
    \/ ParseArgs
    \/ InitSuiteOk
    \/ InitSuiteFails
    \/ StartScript
    \/ FinishCallable
    \/ Summary
    \/ ExitWithStatus

SpecRunner == InitRunner /\ [][NextRunner]_vars

----------------------------------------------------------------------------
(* Properties of the suite runner *)

Selected == IF cli.all THEN ScriptNames ELSE cli.flags
StatusOf(t) == results[t].status
AllClassified == scripts_to_run # <<>> /\ DOMAIN results = SeqToSet(scripts_to_run)

\* C1: when main() has exited after a run in which every selected tool (at
\* least one) was classified, the exit code is 2 if some tool is error,
\* 1 if none is error and some tool is warning, and 0 otherwise; the value
\* generate_summary_report computed is the same.
C1_ExitCodeFollowsStatuses ==
    (pc = "exited" /\ AllClassified) =>
        /\ exit_code =
             Some(IF \E t \in DOMAIN results : StatusOf(t) = "error" THEN 2
                  ELSE IF \E t \in DOMAIN results : StatusOf(t) = "warning" THEN 1
                  ELSE 0)
        /\ summary_code = exit_code

\* a run that exits 2 although other tools succeeded or warned
C1_Witness ==
    /\ pc = "exited" /\ AllClassified /\ exit_code = Some(2)
    /\ \E t \in DOMAIN results : StatusOf(t) = "success"
    /\ \E t \in DOMAIN results : StatusOf(t) = "warning"
    /\ \E t \in DOMAIN results : StatusOf(t) = "error"

LastTool == started[Len(started)]
JustClassified == pc = "loop" /\ idx > 1 /\ last_outcome # None

\* C2: right after run_script has classified a run, the status is success
\* exactly when the entry function returned or exited with code 0 or no
\* code, warning exactly when it exited with code 1, error exactly when it
\* exited with another code or raised; a raised exception's message is the
\* result's error field and no other outcome sets that field.
C2_Classification ==
    JustClassified =>
        LET o == last_outcome[1]
            r == results[LastTool]
        IN /\ (r.status = "success") <=>
                  (o.kind = "return" \/ (o.kind = "exit" /\ o.code \in {None, Some(0)}))
           /\ (r.status = "warning") <=> (o.kind = "exit" /\ o.code = Some(1))
           /\ (r.status = "error") <=>
                  (o.kind = "raise" \/ (o.kind = "exit" /\ o.code \notin {None, Some(0), Some(1)}))
           /\ (o.kind = "raise") => r.error = o.msg
           /\ (o.kind # "raise") => r.error = None
           /\ r.status \in {"success", "warning", "error"}

\* an exception was classified as error with its message captured
C2_Witness ==
    /\ JustClassified
    /\ last_outcome[1].kind = "raise"
    /\ results[LastTool].status = "error"
    /\ results[LastTool].error = Some("boom")

\* C3 as claimed: with a loadable configuration file, every stub tool the
\* runner has run was classified success with exit code 0.
C3_StubsSucceed ==
    \A t \in DOMAIN results \cap StubTools :
        cli.config_ok => (results[t].status = "success" /\ results[t].exit_code = 0)

PositionOf(t) == CHOOSE i \in 1..Len(AllScripts) : AllScripts[i] = t
IsPrefix(a, b) == Len(a) <= Len(b) /\ a = SubSeq(b, 1, Len(a))

\* C4: tools are started in the fixed order, each selected tool at most
\* once, a tool is started only when every tool started before it has its
\* entry in the result set, and a run that no interrupt ended has started
\* every selected tool and holds exactly one result entry per selected tool,
\* whatever the tools did (return, exit with any code, exception).
C4_EveryToolRunsInOrder ==
    /\ IsPrefix(started, scripts_to_run)
    /\ \A i, j \in 1..Len(started) :
          i < j => PositionOf(started[i]) < PositionOf(started[j])
    /\ pc # "start" => SeqToSet(scripts_to_run) = Selected
    /\ pc = "script" => DOMAIN results = SeqToSet(started) \ {LastTool}
    /\ (pc \in {"loop", "final"}) => DOMAIN results = SeqToSet(started)
    /\ (pc \in {"final", "exited"} /\ exit_via \notin {"no_selection", "fatal", "interrupt"}) =>
          /\ started = scripts_to_run
          /\ DOMAIN results = Selected
          /\ \A t \in Selected : results[t].name = t

\* C17: once run_script has returned or let an outcome through, whatever
\* the tool did (return, exit, exception, interrupt), the process argument
\* vector is again the one in place before the call, which is the one the
\* runner was started with.
C17_ArgvRestored ==
    /\ (pc \in {"loop", "final"} \/ (pc = "exited" /\ last_outcome # None)) =>
          sys_argv = ProcessArgv(cli)
    /\ pc = "script" =>
          original_argv = ProcessArgv(cli) /\ sys_argv # original_argv

\* the second tool was interrupted; the runner ended with the argument
\* vector it was started with
C17_Witness ==
    /\ pc = "exited" /\ exit_via = "interrupt" /\ last_outcome = Some(Interrupt)
    /\ Len(started) = 2
    /\ sys_argv = ProcessArgv(cli) /\ sys_argv # ScriptArgv(common_args)

\* all seven tools ran although the first raised and the second exited 2
C4_Witness ==
    /\ pc = "exited" /\ exit_via = "status"
    /\ started = AllScripts
    /\ results["discovery"].error # None
    /\ results["health"].exit_code = 2
    /\ results["stp"].status = "success"

----------------------------------------------------------------------------
(* Device health records: scripts/health_check.py *)

\* metrics collected for one device before its overall status is computed
MaxMetrics == 2

\* HealthStatus
HealthStatuses == {"GOOD", "WARNING", "CRITICAL", "UNKNOWN"}

\* HealthMetric: the fields the monitor reads after collection
Metric(s, m) == [status |-> s, message |-> m]

\* DeviceHealth as constructed for a device: no metrics, overall status UNKNOWN
NewDeviceHealth(ip, host, up) ==
    [device_ip |-> ip, hostname |-> host, reachable |-> up,
     cpu_utilization |-> None, memory_usage |-> None, flash_usage |-> None,
     temperature_sensors |-> <<>>, power_supplies |-> <<>>, fans |-> <<>>,
     interface_errors |-> <<>>, interface_utilization |-> <<>>,
     overall_status |-> "UNKNOWN", errors |-> <<>>]

\* the single-valued and the list-valued metric fields of DeviceHealth
SingleFields == {"cpu_utilization", "memory_usage", "flash_usage"}
ListFields == {"temperature_sensors", "power_supplies", "fans",
               "interface_errors", "interface_utilization"}

\* a collector stores one metric: an assignment to a single-valued field
\* (line 207) or an append to a list (lines 89, 150, 167)
WithMetric(h, field, m) ==
    IF field \in SingleFields THEN [h EXCEPT ![field] = Some(m)]
    ELSE [h EXCEPT ![field] = Append(@, m)]

MetricCount(h) ==
    Len(h.cpu_utilization) + Len(h.memory_usage) + Len(h.flash_usage)
    + Len(h.temperature_sensors) + Len(h.power_supplies) + Len(h.fans)
    + Len(h.interface_errors) + Len(h.interface_utilization)

RECURSIVE CountMetrics(_, _)
CountMetrics(ms, s) ==
    IF ms = <<>> THEN 0
    ELSE (IF Head(ms).status = s THEN 1 ELSE 0) + CountMetrics(Tail(ms), s)

\* calculate_overall_status(), lines 222-233: the metrics that are counted.
\* An optional metric is a sequence of length 0 or 1, so appending it when
\* it is present is a concatenation.
AllMetrics(h) ==
    h.cpu_utilization \o h.memory_usage
    \o h.temperature_sensors \o h.power_supplies \o h.fans
    \o h.interface_errors \o h.interface_utilization

\* variant: the warning count tested before the critical count
CalculateOverallStatusWarningFirst(h) ==
    IF ~h.reachable THEN "CRITICAL"
    ELSE LET all_metrics == AllMetrics(h)
         IN IF Len(all_metrics) = 0 THEN "UNKNOWN"
            ELSE IF CountMetrics(all_metrics, "WARNING") > 0 THEN "WARNING"
            ELSE IF CountMetrics(all_metrics, "CRITICAL") > 0 THEN "CRITICAL"
            ELSE "GOOD"

\* calculate_overall_status(), lines 213-252
CalculateOverallStatus(h) ==
    IF ~h.reachable THEN "CRITICAL"
    ELSE LET all_metrics == AllMetrics(h)
             critical_count == CountMetrics(all_metrics, "CRITICAL")
             warning_count == CountMetrics(all_metrics, "WARNING")
             total_metrics == Len(all_metrics)
         IN IF total_metrics = 0 THEN "UNKNOWN"
            ELSE IF critical_count > 0 THEN "CRITICAL"
            ELSE IF warning_count > 0 THEN "WARNING"
            ELSE "GOOD"

\* a device's record before collection starts
HealthStart ==
    \E up \in BOOLEAN :
        dh = [pc |-> "collect", health |-> NewDeviceHealth("10.0.0.1", None, up),
              result |-> None]

\* a collector records a metric of some category with some status
CollectMetric ==
    /\ dh.pc = "collect" /\ MetricCount(dh.health) < MaxMetrics
    /\ \E f \in SingleFields \cup ListFields, s \in HealthStatuses :
         dh' = [dh EXCEPT !.health = WithMetric(@, f, Metric(s, None))]
    /\ UNCHANGED notHealth

\* the overall status of the record is computed
Calculate ==
    /\ dh.pc = "collect"
    /\ dh' = [dh EXCEPT !.pc = "done", !.result = Some(CalculateOverallStatus(dh.health))]
    /\ UNCHANGED notHealth

InitHealth == CoreIdle /\ HealthStart /\ MonitorIdle /\ NotifyIdle /\ RangesIdle /\ UnitsIdle

NextHealth == CollectMetric \/ Calculate

SpecHealth == InitHealth /\ [][NextHealth]_vars

\* the statuses found among the metrics of the seven categories
StatusesOf(ms) == {ms[i].status : i \in 1..Len(ms)}
CountedStatuses(h) ==
    StatusesOf(h.cpu_utilization) \cup StatusesOf(h.memory_usage)
    \cup StatusesOf(h.temperature_sensors) \cup StatusesOf(h.power_supplies)
    \cup StatusesOf(h.fans) \cup StatusesOf(h.interface_errors)
    \cup StatusesOf(h.interface_utilization)

\* C11: calculate_overall_status gives CRITICAL for an unreachable device
\* whatever its metrics; for a reachable one, over the cpu, memory,
\* temperature, power supply, fan, interface error and interface utilization
\* metrics: CRITICAL if one is CRITICAL, else WARNING if one is WARNING,
\* else GOOD if there is at least one metric, else UNKNOWN.
C11_OverallStatus ==
    dh.pc = "done" =>
        LET h == dh.health
            found == CountedStatuses(h)
        IN dh.result = Some(
             IF ~h.reachable THEN "CRITICAL"
             ELSE IF "CRITICAL" \in found THEN "CRITICAL"
             ELSE IF "WARNING" \in found THEN "WARNING"
             ELSE IF found # {} THEN "GOOD"
             ELSE "UNKNOWN")

\* a reachable device with a WARNING fan and a CRITICAL power supply was
\* evaluated
C11_Witness ==
    /\ dh.pc = "done" /\ dh.health.reachable
    /\ StatusesOf(dh.health.fans) = {"WARNING"}
    /\ StatusesOf(dh.health.power_supplies) = {"CRITICAL"}
    /\ dh.result = Some("CRITICAL")

----------------------------------------------------------------------------
(* Health monitor run: scripts/health_check.py, main() and HealthMonitor *)

\* configured devices in one run
NumDevices == 6
\* records in the history file when the run starts
MaxHistory == 2

\* save_historical_data(), line 486: timedelta(days=30)
RetentionDays == 30
\* send_alerts(), lines 582, 584, 595 and 597: the limits of the listings, and
\* the number of WARNING devices from which a warning alert is sent
CriticalListed == 5
IssuesListed == 3
WarningListed == 3
WarningThreshold == 3

\* ages, in days, of the records a history file may hold
HistoryAges == {10, 29, 30, 31}

RECURSIVE SeqsUpTo(_, _)
SeqsUpTo(S, n) ==
    IF n = 0 THEN {<<>>}
    ELSE LET shorter == SeqsUpTo(S, n - 1)
         IN shorter \cup {Append(q, x) : q \in {r \in shorter : Len(r) = n - 1}, x \in S}

\* a history record: the time of the run and the records it checked
HistoryRecord(t, data) == [timestamp |-> t, health_data |-> data]

\* the history lists a file written by earlier runs may hold at time t
LoadedHistories(t) ==
    SeqsUpTo({HistoryRecord(t - a, <<>>) : a \in HistoryAges}, MaxHistory)

Take(q, n) == SubSeq(q, 1, IF Len(q) < n THEN Len(q) ELSE n)

\* what check_device_health returns for a device: a healthy switch, one
\* with a warm sensor, one with four CRITICAL metrics (one of them without
\* a message) next to a good one, and one that could not be reached
CheckedHealth(ip) ==
    LET base(host, up) == NewDeviceHealth(ip, host, up)
        good == WithMetric(base(Some("sw"), TRUE), "fans", Metric("GOOD", Some("fan ok")))
        warm == WithMetric(base(None, TRUE), "temperature_sensors",
                           Metric("WARNING", Some("warm")))
        c1 == WithMetric(base(Some("core"), TRUE), "cpu_utilization",
                         Metric("CRITICAL", Some("cpu")))
        c2 == WithMetric(c1, "temperature_sensors", Metric("CRITICAL", Some("hot")))
        c3 == WithMetric(c2, "power_supplies", Metric("CRITICAL", None))
        c4 == WithMetric(c3, "power_supplies", Metric("CRITICAL", Some("ps")))
        c5 == WithMetric(c4, "fans", Metric("CRITICAL", Some("fan")))
        down == [base(None, FALSE) EXCEPT !.errors = <<"unreachable">>]
    IN {[h EXCEPT !.overall_status = CalculateOverallStatus(h)] :
            h \in {good, warm, c5, down}}

\* check_all_devices(), lines 286-288: the record stored when the task raised
ErrorHealth(ip) ==
    [NewDeviceHealth(ip, None, FALSE) EXCEPT !.errors = <<"exception">>,
                                             !.overall_status = "UNKNOWN"]

CountOverall(hs, st) == Cardinality({i \in 1..Len(hs) : hs[i].overall_status = st})

\* generate_summary_report(), lines 504-553 (averages and score left out)
HealthSummary(hs) ==
    LET WithStatus(st) ==
            LET Is(h) == h.overall_status = st
                sel == SelectSeq(hs, Is)
            IN [i \in 1..Len(sel) |-> sel[i].device_ip]
    IN [total_devices |-> Len(hs),
        status_distribution |->
            [good |-> CountOverall(hs, "GOOD"), warning |-> CountOverall(hs, "WARNING"),
             critical |-> CountOverall(hs, "CRITICAL"), unknown |-> CountOverall(hs, "UNKNOWN")],
        critical_devices |-> WithStatus("CRITICAL"),
        warning_devices |-> WithStatus("WARNING")]

\* variant: the cutoff itself is kept
RetainedInclusive(records, t) ==
    LET Recent(r) == r.timestamp >= t - RetentionDays
    IN SelectSeq(records, Recent)

\* save_historical_data(), lines 486-490
Retained(records, t) ==
    LET Recent(r) == r.timestamp > t - RetentionDays
    IN SelectSeq(records, Recent)

\* send_alerts(), lines 565-568 and 574-576: the issues listed for a device
Issues(h, st) ==
    LET Listed(m) == m.status = st /\ Truthy(m.message)
        sel == SelectSeq(h.cpu_utilization \o h.memory_usage \o h.temperature_sensors
                         \o h.power_supplies \o h.fans, Listed)
    IN (IF st = "CRITICAL" THEN h.errors ELSE <<>>)
       \o [i \in 1..Len(sel) |-> sel[i].message[1]]

\* send_alerts(), lines 557-577: the CRITICAL or the WARNING devices
AlertDevices(hs, st) ==
    LET Is(h) == h.overall_status = st
        sel == SelectSeq(hs, Is)
    IN [i \in 1..Len(sel) |->
          [ip |-> sel[i].device_ip,
           hostname |-> IF Truthy(sel[i].hostname) THEN sel[i].hostname[1]
                        ELSE sel[i].device_ip,
           issues |-> Issues(sel[i], st)]]

\* send_alerts(), lines 581-586 and 596-598: the text of an alert, as the
\* number of devices announced and the lines that follow
AlertMessage(devs, n, with_issues) ==
    LET shown == Take(devs, n)
    IN [device_count |-> Len(devs),
        lines |-> [i \in 1..Len(shown) |->
                     [ip |-> shown[i].ip, hostname |-> shown[i].hostname,
                      issues |-> IF with_issues THEN Take(shown[i].issues, IssuesListed)
                                 ELSE <<>>]]]

\* send_notification(), lines 46-49: the parameters as bound for a call with
\* the positional arguments pos; a parameter without argument has its default
SendNotificationParams(pos) ==
    [notification_type |-> pos[1],
     message |-> pos[2],
     data |-> IF Len(pos) >= 3 THEN Some(pos[3]) ELSE None,
     severity |-> IF Len(pos) >= 4 THEN pos[4] ELSE "MEDIUM",
     attachments |-> IF Len(pos) >= 5 THEN Some(pos[5]) ELSE None]

\* send_alerts(), lines 580-604: the calls made, in order
AlertCalls(hs) ==
    LET critical_devices == AlertDevices(hs, "CRITICAL")
        warning_devices == AlertDevices(hs, "WARNING")
    IN (IF critical_devices # <<>>
        THEN <<SendNotificationParams(
                 <<"health_critical",
                   AlertMessage(critical_devices, CriticalListed, TRUE),
                   [severity |-> "CRITICAL", device_count |-> Len(critical_devices)]>>)>>
        ELSE <<>>)
       \o (IF warning_devices # <<>> /\ Len(warning_devices) >= WarningThreshold
           THEN <<SendNotificationParams(
                    <<"health_warning",
                      AlertMessage(warning_devices, WarningListed, FALSE),
                      [severity |-> "MEDIUM", device_count |-> Len(warning_devices)]>>)>>
           ELSE <<>>)

\* variant: the warning count tested first
HealthExitCodeWarningFirst(sm) ==
    IF sm.status_distribution.warning > 0 THEN 1
    ELSE IF sm.status_distribution.critical > 0 THEN 2
    ELSE 0

\* main(), lines 715-723
HealthExitCode(sm) ==
    IF sm.status_distribution.critical > 0 THEN 2
    ELSE IF sm.status_distribution.warning > 0 THEN 1
    ELSE 0

\* the state when main() is entered, for runs over at most maxdev devices
\* that start from one of the given history lists
MonitorStart(maxdev, histories, writables) ==
    /\ mpc = "init"
    /\ monitor_args \in [send_alerts : BOOLEAN, writable : writables,
                         devices : 0..maxdev, loaded : histories]
    /\ monitor_health = <<>>
    /\ historical_data = monitor_args.loaded
    /\ history_file = monitor_args.loaded
    /\ now = 0
    /\ saved = FALSE
    /\ health_summary = None
    /\ notifications = <<>>
    /\ health_exit = None

\* main(), lines 637-663: the monitor is constructed and configured
MonitorInitOk ==
    /\ mpc = "init"
    /\ mpc' = "check"
    /\ UNCHANGED <<monitor_args, monitor_health, historical_data, history_file, now,
                   saved, health_summary, notifications, health_exit>>
    /\ UNCHANGED notMonitor

\* main(), lines 728-730: an exception of the constructor ends the run
MonitorInitFails ==
    /\ mpc = "init"
    /\ mpc' = "failed" /\ health_exit' = Some(1)
    /\ UNCHANGED <<monitor_args, monitor_health, historical_data, history_file, now,
                   saved, health_summary, notifications>>
    /\ UNCHANGED notMonitor

\* check_all_devices(), lines 267-291: the record of the device whose task
\* ended next is stored, or the error record if the task raised
CheckDevice ==
    /\ mpc = "check" /\ Len(monitor_health) < monitor_args.devices
    /\ LET ip == Len(monitor_health) + 1
       IN \E h \in CheckedHealth(ip) \cup {ErrorHealth(ip)} :
            monitor_health' = Append(monitor_health, h)
    /\ UNCHANGED <<mpc, monitor_args, historical_data, history_file, now, saved,
                   health_summary, notifications, health_exit>>
    /\ UNCHANGED notMonitor

\* main(), line 672: generate_summary_report
MonitorSummary ==
    /\ mpc = "check" /\ Len(monitor_health) = monitor_args.devices
    /\ health_summary' = Some(HealthSummary(monitor_health))
    /\ mpc' = "save"
    /\ UNCHANGED <<monitor_args, monitor_health, historical_data, history_file, now,
                   saved, notifications, health_exit>>
    /\ UNCHANGED notMonitor

\* main(), lines 697-702: save_health_data, whose last step is
\* save_historical_data (lines 474-502): the record of this run is appended,
\* the list is pruned and the file is rewritten; a failure to write is logged
SaveHealthData ==
    /\ mpc = "save"
    /\ historical_data' =
          Retained(Append(historical_data, HistoryRecord(now, monitor_health)), now)
    /\ IF monitor_args.writable
       THEN history_file' = historical_data' /\ saved' = TRUE
       ELSE UNCHANGED <<history_file, saved>>
    /\ mpc' = "alerts"
    /\ UNCHANGED <<monitor_args, monitor_health, now, health_summary, notifications,
                   health_exit>>
    /\ UNCHANGED notMonitor

\* main(), lines 709-711: send_alerts (lines 554-607) if --send-alerts
SendAlerts ==
    /\ mpc = "alerts"
    /\ notifications' = IF monitor_args.send_alerts THEN AlertCalls(monitor_health)
                        ELSE notifications
    /\ mpc' = "exit"
    /\ UNCHANGED <<monitor_args, monitor_health, historical_data, history_file, now,
                   saved, health_summary, health_exit>>
    /\ UNCHANGED notMonitor

\* main(), lines 715-723
MonitorExit ==
    /\ mpc = "exit"
    /\ health_exit' = Some(HealthExitCode(health_summary[1]))
    /\ mpc' = "exited"
    /\ UNCHANGED <<monitor_args, monitor_health, historical_data, history_file, now,
                   saved, health_summary, notifications>>
    /\ UNCHANGED notMonitor

NextMonitor ==
    \/ MonitorInitOk
    \/ MonitorInitFails
    \/ CheckDevice
    \/ MonitorSummary
    \/ SaveHealthData
    \/ SendAlerts
    \/ MonitorExit

\* runs over up to NumDevices devices that start without history
InitMonitor ==
    /\ CoreIdle /\ HealthIdle /\ NotifyIdle /\ RangesIdle /\ UnitsIdle
    /\ MonitorStart(NumDevices, {<<>>}, {TRUE})

SpecMonitor == InitMonitor /\ [][NextMonitor]_vars

\* runs over at most one device that start from a history file
InitHistory ==
    /\ CoreIdle /\ HealthIdle /\ NotifyIdle /\ RangesIdle /\ UnitsIdle
    /\ MonitorStart(1, LoadedHistories(0), BOOLEAN)

SpecHistory == InitHistory /\ [][NextMonitor]_vars

\* the positions, in the loaded list, of the records less than 30 days old
RecentLoaded ==
    {i \in 1..Len(monitor_args.loaded) :
        now - monitor_args.loaded[i].timestamp < RetentionDays}

\* the position in the loaded list of the j-th of them
NthRecent(j) ==
    CHOOSE i \in RecentLoaded : Cardinality({k \in RecentLoaded : k <= i}) = j

AlertsOfType(t) == {i \in 1..Len(notifications) : notifications[i].notification_type = t}

\* C13 as claimed: when send_alerts has run, a run with a CRITICAL device
\* has caused exactly one critical notification, received with severity
\* CRITICAL, that lists at most 5 devices with at most 3 issues each (and a
\* run without one has caused none); and exactly one warning notification,
\* received with severity MEDIUM and listing at most 3 devices, has been
\* caused if and only if 3 or more devices are WARNING.
C13_AlertSeverities ==
    (mpc \in {"exit", "exited"} /\ monitor_args.send_alerts) =>
        LET crit == AlertsOfType("health_critical")
            warn == AlertsOfType("health_warning")
        IN /\ Cardinality(crit) =
                 (IF CountOverall(monitor_health, "CRITICAL") > 0 THEN 1 ELSE 0)
           /\ \A i \in crit :
                 /\ notifications[i].severity = "CRITICAL"
                 /\ Len(notifications[i].message.lines) <= CriticalListed
                 /\ \A j \in 1..Len(notifications[i].message.lines) :
                       Len(notifications[i].message.lines[j].issues) <= IssuesListed
           /\ Cardinality(warn) =
                 (IF CountOverall(monitor_health, "WARNING") >= WarningThreshold
                  THEN 1 ELSE 0)
           /\ \A i \in warn :
                 /\ notifications[i].severity = "MEDIUM"
                 /\ Len(notifications[i].message.lines) <= WarningListed
           /\ Len(notifications) = Cardinality(crit) + Cardinality(warn)

\* C14: the exit status of a completed health check run is 2 if a checked
\* device is CRITICAL, 1 if none is CRITICAL and one is WARNING, 0 otherwise.
C14_HealthExitCode ==
    mpc = "exited" =>
        LET Some_(st) == \E i \in 1..Len(monitor_health) :
                             monitor_health[i].overall_status = st
        IN health_exit = Some(IF Some_("CRITICAL") THEN 2
                              ELSE IF Some_("WARNING") THEN 1
                              ELSE 0)

\* a run over a good, a warm and a failed check ended with status 1
C14_Witness ==
    /\ mpc = "exited" /\ health_exit = Some(1)
    /\ Len(monitor_health) = 3
    /\ monitor_health[1].overall_status = "GOOD"
    /\ monitor_health[2].overall_status = "WARNING"
    /\ monitor_health[3].overall_status = "UNKNOWN"

----------------------------------------------------------------------------
(* Notification manager: utils/notifications.py *)

\* AlertSeverity
AlertSeverities == {"LOW", "MEDIUM", "HIGH", "CRITICAL"}

\* _log_notification(), lines 179-184
LogLevel(severity) ==
    CASE severity = "LOW" -> "INFO"
      [] severity = "MEDIUM" -> "WARNING"
      [] severity = "HIGH" -> "ERROR"
      [] severity = "CRITICAL" -> "CRITICAL"
      [] OTHER -> "INFO"

\* variant: the flag holds the outcome of the channel attempted last
ChannelResultOfLast(success, ok) == ok

\* send_notification(), lines 73-75 and 80-82: the success flag after a
\* channel was attempted; ok is false when the channel raised
ChannelResult(success, ok) == success /\ ok

\* a manager with some configuration receives a call
NotifyStart ==
    \E en, em, wh, d \in BOOLEAN, sv \in AlertSeverities :
        nm = [pc |-> "enter", enabled |-> en, email_enabled |-> em,
              webhook_enabled |-> wh, severity |-> sv, has_data |-> d,
              success |-> TRUE,
              attempted |-> <<>>,  \* history: the channels tried, in order
              failed |-> {},       \* history: the channels that raised
              logged |-> <<>>,     \* history: the levels the event was logged at
              result |-> None]     \* the value returned

\* send_notification(), lines 63-67: the enabled test
NotifyEnter ==
    /\ nm.pc = "enter"
    /\ nm' = IF nm.enabled THEN [nm EXCEPT !.pc = "email"]
             ELSE [nm EXCEPT !.pc = "returned", !.result = Some(TRUE)]
    /\ UNCHANGED notNotify

\* one channel of send_notification: attempted if enabled, a failure is
\* logged and remembered in the flag
Channel(name, is_enabled, next) ==
    IF is_enabled
    THEN \E ok \in BOOLEAN :
           nm' = [nm EXCEPT !.attempted = Append(@, name),
                            !.failed = IF ok THEN @ ELSE @ \cup {name},
                            !.success = ChannelResult(@, ok),
                            !.pc = next]
    ELSE nm' = [nm EXCEPT !.pc = next]

\* send_notification(), lines 70-75
NotifyEmail ==
    /\ nm.pc = "email"
    /\ Channel("email", nm.email_enabled, "webhook")
    /\ UNCHANGED notNotify

\* send_notification(), lines 77-82
NotifyWebhook ==
    /\ nm.pc = "webhook"
    /\ Channel("webhook", nm.webhook_enabled, "log")
    /\ UNCHANGED notNotify

\* send_notification(), lines 85-87: the event is logged and the flag returned
NotifyLog ==
    /\ nm.pc = "log"
    /\ nm' = [nm EXCEPT !.logged = Append(@, LogLevel(nm.severity)),
                        !.result = Some(nm.success),
                        !.pc = "returned"]
    /\ UNCHANGED notNotify

InitNotify == CoreIdle /\ HealthIdle /\ MonitorIdle /\ NotifyStart /\ RangesIdle /\ UnitsIdle

NextNotify == NotifyEnter \/ NotifyEmail \/ NotifyWebhook \/ NotifyLog

SpecNotify == InitNotify /\ [][NextNotify]_vars

EnabledChannels ==
    (IF nm.email_enabled THEN <<"email">> ELSE <<>>)
    \o (IF nm.webhook_enabled THEN <<"webhook">> ELSE <<>>)

\* C15: a call with notifications enabled ends by returning (it never
\* raises), has attempted every enabled channel, the later one also when
\* the earlier one failed, has logged the event exactly once, and returns
\* true exactly when no attempted channel failed; with notifications
\* disabled it returns true, attempts no channel and logs no event.
C15_SendNotification ==
    /\ nm.pc = "returned" =>
          /\ nm.result # None
          /\ nm.enabled =>
                /\ nm.attempted = EnabledChannels
                /\ Len(nm.logged) = 1
                /\ nm.result = Some(nm.failed = {})
          /\ ~nm.enabled =>
                nm.result = Some(TRUE) /\ nm.attempted = <<>> /\ nm.logged = <<>>
    /\ nm.pc \in {"enter", "email", "webhook", "log", "returned"}
    /\ nm.pc = "log" => nm.attempted = EnabledChannels

\* both channels enabled, the email failed, the webhook was still attempted
\* and succeeded, the event was logged and false returned
C15_Witness ==
    /\ nm.pc = "returned" /\ nm.enabled
    /\ nm.attempted = <<"email", "webhook">> /\ nm.failed = {"email"}
    /\ Len(nm.logged) = 1 /\ nm.result = Some(FALSE)

----------------------------------------------------------------------------
(* Range expansion: scripts/device_discovery.py, discover_network *)

\* width of an address in bits (32 for IPv4): addresses are 0..2^AddrBits-1
AddrBits == 2
\* tokens in one call of discover_network
MaxTokens == 2

AddrCount == Pow(2, AddrBits)
Addr == 0..(AddrCount - 1)

(* A token is a sequence of lexemes: the text of a number (a dotted address
   or a prefix length, by its value; AddrCount stands for a text such as
   10.0.0.999), a slash, a hyphen, or any other text. *)
Num(n) == [t |-> "num", v |-> n]
Slash == [t |-> "/", v |-> 0]
Dash == [t |-> "-", v |-> 0]
Word == [t |-> "word", v |-> 0]

RangeTokens ==
    {<<Num(a)>> : a \in 0..AddrCount} \cup {<<Word>>}
    \cup {<<Num(a), Slash, Num(q)>> : a \in 0..AddrCount, q \in 0..(AddrBits + 1)}
    \cup {<<Num(a), Dash, Num(b)>> : a, b \in 0..AddrCount}
    \cup {<<Word, Slash, Num(1)>>, <<Num(1), Dash, Word>>,
          <<Num(0), Dash, Num(1), Dash, Num(2)>>,
          <<Num(0), Slash, Num(1), Dash, Num(2)>>, <<Num(1), Dash>>}

\* '/' in ip_range, '-' in ip_range
Contains(token, t) == \E i \in 1..Len(token) : token[i].t = t

\* ip_range.split('-')
RECURSIVE Split(_, _)
Split(token, piece) ==
    IF token = <<>> THEN <<piece>>
    ELSE IF Head(token).t = "-" THEN <<piece>> \o Split(Tail(token), <<>>)
         ELSE Split(Tail(token), Append(piece, Head(token)))

\* ipaddress.ip_address(text): the address, or None for the ValueError
IpAddress(piece) ==
    IF Len(piece) = 1 /\ piece[1].t = "num" /\ piece[1].v < AddrCount
    THEN Some(piece[1].v) ELSE None

\* ipaddress.ip_network(text, strict=False): the network as its first
\* address and its prefix length (host bits are masked), or None
IpNetwork(token) ==
    IF /\ Len(token) = 3 /\ token[2].t = "/" /\ token[3].t = "num"
       /\ token[3].v <= AddrBits /\ IpAddress(<<token[1]>>) # None
    THEN LET size == Pow(2, AddrBits - token[3].v)
         IN Some([first |-> token[1].v - (token[1].v % size), prefixlen |-> token[3].v])
    ELSE None

\* the addresses first, first+1, ..., last in ascending order
Ascending(first, last) ==
    IF last < first THEN <<>> ELSE [i \in 1..(last - first + 1) |-> first + i - 1]

\* variant: every address of the network
HostsWithEnds(net) ==
    Ascending(net.first, net.first + Pow(2, AddrBits - net.prefixlen) - 1)

\* network.hosts(): without the network and the broadcast address, except
\* that a network of two addresses or of one yields all its addresses
Hosts(net) ==
    LET size == Pow(2, AddrBits - net.prefixlen)
    IN IF size <= 2 THEN Ascending(net.first, net.first + size - 1)
       ELSE Ascending(net.first + 1, net.first + size - 2)

\* str(ip): the text of an address, as a token
Str(a) == <<Num(a)>>
StrAll(q) == [i \in 1..Len(q) |-> Str(q[i])]

\* discover_network(), lines 477-495: what one token adds to all_ips, and
\* whether the except clause logged it.  In the hyphen form the address
\* after the last one of the address space cannot be built: the increment
\* raises after the last address was appended.
ExpandToken(token) ==
    IF Contains(token, "/")
    THEN LET net == IpNetwork(token)
         IN IF net = None THEN [ips |-> <<>>, error |-> TRUE]
            ELSE [ips |-> StrAll(Hosts(net[1])), error |-> FALSE]
    ELSE IF Contains(token, "-")
    THEN LET parts == Split(token, <<>>)
         IN IF Len(parts) # 2 THEN [ips |-> <<>>, error |-> TRUE]
            ELSE LET start == IpAddress(parts[1])
                     end == IpAddress(parts[2])
                 IN IF start = None \/ end = None THEN [ips |-> <<>>, error |-> TRUE]
                    ELSE [ips |-> StrAll(Ascending(start[1], end[1])),
                          error |-> start[1] <= end[1] /\ end[1] = AddrCount - 1]
    ELSE [ips |-> <<token>>, error |-> FALSE]

\* discover_network(), line 473
RangesStart ==
    rg = [pc |-> "loop", all_ips |-> <<>>,
          count |-> 0,         \* tokens processed
          token |-> <<>>,      \* history: the token processed last
          before |-> <<>>,     \* history: all_ips before that token
          logged |-> FALSE]    \* history: whether that token was logged as invalid

\* discover_network(), lines 476-495: one pass of the for loop
ExpandNext ==
    /\ rg.pc = "loop" /\ rg.count < MaxTokens
    /\ \E token \in RangeTokens :
         LET r == ExpandToken(token)
         IN rg' = [rg EXCEPT !.all_ips = @ \o r.ips, !.count = @ + 1,
                             !.token = token, !.before = rg.all_ips,
                             !.logged = r.error]
    /\ UNCHANGED notRanges

\* the for loop ends
ExpandDone ==
    /\ rg.pc = "loop"
    /\ rg' = [rg EXCEPT !.pc = "done"]
    /\ UNCHANGED notRanges

InitRanges == CoreIdle /\ HealthIdle /\ MonitorIdle /\ NotifyIdle /\ RangesStart /\ UnitsIdle

NextRanges == ExpandNext \/ ExpandDone

SpecRanges == InitRanges /\ [][NextRanges]_vars

\* what the token processed last added to the scan list
Contribution == SubSeq(rg.all_ips, Len(rg.before) + 1, Len(rg.all_ips))

\* the three valid forms of a token
ValidSingle(token) ==
    Len(token) = 1 /\ token[1].t = "num" /\ token[1].v \in Addr
ValidCidr(token) ==
    /\ Len(token) = 3 /\ token[1].t = "num" /\ token[2].t = "/" /\ token[3].t = "num"
    /\ token[1].v \in Addr /\ token[3].v \in 0..AddrBits
ValidRange(token) ==
    /\ Len(token) = 3 /\ token[1].t = "num" /\ token[2].t = "-" /\ token[3].t = "num"
    /\ token[1].v \in Addr /\ token[3].v \in Addr

\* the addresses of the network of a CIDR token, and those of them that are
\* neither its lowest (network) nor its highest (broadcast) address; a
\* network of one or two addresses has no network and broadcast address
NetworkOf(token) ==
    LET size == Pow(2, AddrBits - token[3].v)
    IN {x \in Addr : x \div size = token[1].v \div size}
Usable(net) ==
    IF Cardinality(net) <= 2 THEN net
    ELSE {x \in net : (\E y \in net : y < x) /\ (\E z \in net : x < z)}

\* q lists the texts of the addresses in S, each once, in ascending order
ListsAscending(q, S) ==
    /\ Len(q) = Cardinality(S)
    /\ \A i \in 1..Len(q) : \E x \in S : q[i] = <<Num(x)>>
    /\ \A i, j \in 1..Len(q) : i < j => q[i][1].v < q[j][1].v

\* C16: a CIDR token adds exactly the usable host addresses of its network
\* (not the network and the broadcast address), and a token start-end adds
\* every address from start to end inclusive, in ascending order, and
\* nothing when start is above end; what was in the list before stays.
C16_RangeExpansion ==
    rg.count > 0 =>
        /\ SubSeq(rg.all_ips, 1, Len(rg.before)) = rg.before
        /\ ValidCidr(rg.token) =>
              ListsAscending(Contribution, Usable(NetworkOf(rg.token)))
        /\ ValidRange(rg.token) =>
              ListsAscending(Contribution,
                             {x \in Addr : rg.token[1].v <= x /\ x <= rg.token[3].v})

\* a CIDR token for a network of four addresses gave its two inner
\* addresses, then a token 1-3 gave the addresses 1, 2 and 3
C16_Witness ==
    /\ rg.count = 2
    /\ rg.before = <<Str(AddrCount - 3), Str(AddrCount - 2)>>
    /\ rg.token = <<Num(1), Dash, Num(3)>>
    /\ Contribution = <<Str(1), Str(2), Str(3)>>

\* C20 as claimed: a token that is not a valid CIDR block, a valid range or
\* a valid single address adds nothing to the scan list and is logged, and
\* the loop goes on with the next token.
C20_InvalidTokenSkipped ==
    (rg.count > 0 /\ ~ValidSingle(rg.token) /\ ~ValidCidr(rg.token)
        /\ ~ValidRange(rg.token)) =>
        /\ Contribution = <<>>
        /\ rg.logged
        /\ SubSeq(rg.all_ips, 1, Len(rg.before)) = rg.before

----------------------------------------------------------------------------
(* One address of a discovery scan: device_discovery.py,                   *)
(* discover_single_device.  The network is an input: what the probe of     *)
(* port 22 answers, which ports the later scan finds open, and whether     *)
(* SNMP and SSH discovery yield a device.  Both discovery functions catch  *)
(* every exception and return None, so neither can end the call.           *)

\* __init__, line 106: the ports scan_ports tries
common_ports == {22, 23, 80, 443, 161, 830}

\* snmp_discovery (line 203) and ssh_discovery (line 309) set the method
\* and the reachable flag; the enrichment is lines 452-456 and 462-466
FoundDevice(method, open_ports) ==
    [discovery_method |-> method, reachable |-> TRUE,
     https_enabled |-> 443 \in open_ports, telnet_enabled |-> 23 \in open_ports]

\* variant: SSH discovery is preferred when its port is open
AfterScanSshFirst(open_ports) ==
    IF 22 \in open_ports THEN "ssh"
    ELSE IF 161 \in open_ports THEN "snmp" ELSE "done"

\* lines 449 and 459: the method tried first after the scan
AfterScan(open_ports) ==
    IF 161 \in open_ports THEN "snmp"
    ELSE IF 22 \in open_ports THEN "ssh" ELSE "done"

\* lines 451 and 459: what follows an SNMP attempt
AfterSnmp(found, open_ports) ==
    IF found THEN "done" ELSE IF 22 \in open_ports THEN "ssh" ELSE "done"

SingleStart ==
    \E r \in BOOLEAN, ports \in SUBSET common_ports, snmp \in BOOLEAN, ssh \in BOOLEAN :
        sd = [pc |-> "probe", reachable |-> r, network |-> ports,
              snmp_yields |-> snmp, ssh_yields |-> ssh,
              open_ports |-> {}, steps |-> <<>>, device_info |-> None]

\* lines 440-442: the probe; an unreachable address returns None at once
IsHostReachable ==
    /\ sd.pc = "probe"
    /\ sd' = [sd EXCEPT !.steps = Append(@, "probe"),
                        !.pc = IF sd.reachable THEN "scan" ELSE "done"]
    /\ UNCHANGED notSingle

\* lines 445-449, 459, 469: the port scan and the choice of the first method
ScanPorts ==
    /\ sd.pc = "scan"
    /\ sd' = [sd EXCEPT !.steps = Append(@, "scan"),
                        !.open_ports = sd.network,
                        !.pc = AfterScan(sd.network)]
    /\ UNCHANGED notSingle

\* lines 450-456: SNMP discovery; a device found is enriched and returned
SnmpDiscovery ==
    /\ sd.pc = "snmp"
    /\ sd' = [sd EXCEPT !.steps = Append(@, "snmp"),
                        !.device_info = IF sd.snmp_yields
                                        THEN Some(FoundDevice("SNMP", sd.open_ports))
                                        ELSE None,
                        !.pc = AfterSnmp(sd.snmp_yields, sd.open_ports)]
    /\ UNCHANGED notSingle

\* lines 459-469: SSH discovery; a device found is enriched and returned
SshDiscovery ==
    /\ sd.pc = "ssh"
    /\ sd' = [sd EXCEPT !.steps = Append(@, "ssh"),
                        !.device_info = IF sd.ssh_yields
                                        THEN Some(FoundDevice("SSH", sd.open_ports))
                                        ELSE None,
                        !.pc = "done"]
    /\ UNCHANGED notSingle

InitSingle == CoreIdle /\ AllToolsIdle /\ SingleStart /\ DetectIdle /\ ProgressIdle
              /\ InterfacesIdle /\ UptimeIdle /\ InventoryIdle /\ RequestsIdle

NextSingle == IsHostReachable \/ ScanPorts \/ SnmpDiscovery \/ SshDiscovery

SpecSingle == InitSingle /\ [][NextSingle]_vars

SnmpFinds == 161 \in sd.network /\ sd.snmp_yields
SshFinds == 22 \in sd.network /\ sd.ssh_yields

\* the steps the claim allows for the network of this call
AllowedSteps ==
    IF ~sd.reachable THEN <<"probe">>
    ELSE <<"probe", "scan">>
         \o (IF 161 \in sd.network THEN <<"snmp">> ELSE <<>>)
         \o (IF 22 \in sd.network /\ ~SnmpFinds THEN <<"ssh">> ELSE <<>>)

\* C21: an unreachable address returns absent after the probe alone; a
\* reachable one is scanned, SNMP is tried first when port 161 is open and
\* its device is returned, SSH is tried only when port 22 is open and SNMP
\* gave no device, and absent is returned when neither yields a device.
C21_DiscoveryOrder ==
    sd.pc # "off" =>
        /\ IsPrefix(sd.steps, AllowedSteps)
        /\ sd.pc = "done" =>
            /\ sd.steps = AllowedSteps
            /\ sd.device_info =
                 IF ~sd.reachable THEN None
                 ELSE IF SnmpFinds THEN Some(FoundDevice("SNMP", sd.network))
                 ELSE IF SshFinds THEN Some(FoundDevice("SSH", sd.network))
                 ELSE None

C21_Witness ==
    /\ sd.pc = "done"
    /\ sd.steps = <<"probe", "scan", "snmp", "ssh">>
    /\ sd.device_info # None

----------------------------------------------------------------------------
(* The result set of check_all_devices against the data model *)

----------------------------------------------------------------------------
(* Driver detection: utils/device_types.py, DeviceTypeDetector.            *)
(* The device is an input: the driver ids under which its login connects,  *)
(* and what it answers to "show version" (a failure of that command is     *)
(* caught and gives the empty text).  disconnect() of the connection       *)
(* library suppresses its own failures, so after a login that connected    *)
(* nothing in the loop body raises.                                        *)

\* variant: the generic driver is tried before the vendor drivers
device_typesLinuxFirst ==
    <<"linux", "cisco_ios", "cisco_xe", "cisco_xr", "cisco_nxos", "cisco_asa",
      "arista_eos", "juniper_junos", "hp_procurve", "hp_comware", "fortinet",
      "paloalto_panos", "vyos">>

\* detect_device_type, lines 78-92: the candidates in the order tried
device_types ==
    <<"cisco_ios", "cisco_xe", "cisco_xr", "cisco_nxos", "cisco_asa",
      "arista_eos", "juniper_junos", "hp_procurve", "hp_comware", "fortinet",
      "paloalto_panos", "vyos", "linux">>

\* what "show version" may answer, as far as _detect_capabilities reads it
VersionOutputs == {"", "IOS XR", "IOS", "other"}

CiscoTypes == {"cisco_ios", "cisco_xe", "cisco_xr", "cisco_nxos", "cisco_asa"}

\* DeviceCapabilities, lines 43-57: the defaults of the declaration
DeviceCapabilities(vendor) ==
    [vendor |-> vendor, supports_enable_mode |-> TRUE, supports_config_mode |-> TRUE,
     supports_commit |-> FALSE, supports_rollback |-> FALSE,
     supports_archive |-> FALSE, command_syntax |-> "cisco"]

\* _detect_capabilities, lines 128-155 ("IOS XR" contains "IOS", and the
\* first test that matches decides)
DetectCapabilities(device_type, version_output) ==
    LET c == DeviceCapabilities(device_type)
    IN IF device_type \in CiscoTypes
       THEN IF version_output = "IOS XR"
            THEN [c EXCEPT !.vendor = "cisco", !.supports_commit = TRUE,
                           !.supports_rollback = TRUE]
            ELSE IF version_output = "IOS"
                 THEN [c EXCEPT !.vendor = "cisco", !.supports_archive = TRUE]
                 ELSE [c EXCEPT !.vendor = "cisco"]
       ELSE IF device_type = "arista_eos"
       THEN [c EXCEPT !.vendor = "arista", !.supports_rollback = TRUE]
       ELSE IF device_type = "juniper_junos"
       THEN [c EXCEPT !.vendor = "juniper", !.supports_commit = TRUE,
                      !.supports_rollback = TRUE, !.command_syntax = "junos"]
       ELSE IF device_type = "linux"
       THEN [c EXCEPT !.vendor = "linux", !.supports_enable_mode = FALSE,
                      !.supports_config_mode = FALSE, !.command_syntax = "linux"]
       ELSE c

DetectStart ==
    \E accepts \in SUBSET SeqToSet(device_types) :
        dt = [pc |-> "loop", accepts |-> accepts, i |-> 1, tried |-> <<>>,
              device_type |-> None, capabilities |-> None]

\* lines 94-119: the login of the next candidate connects; the version text
\* is read, the capabilities are derived and the pair is returned
LoginConnects ==
    /\ dt.pc = "loop" /\ dt.i <= Len(device_types)
    /\ device_types[dt.i] \in dt.accepts
    /\ \E out \in VersionOutputs :
         dt' = [dt EXCEPT !.tried = Append(@, device_types[dt.i]),
                          !.device_type = Some(device_types[dt.i]),
                          !.capabilities =
                              Some(DetectCapabilities(device_types[dt.i], out)),
                          !.pc = "done"]
    /\ UNCHANGED notDetect

\* lines 94-105, 121-123: the login fails; the loop goes on
LoginFails ==
    /\ dt.pc = "loop" /\ dt.i <= Len(device_types)
    /\ device_types[dt.i] \notin dt.accepts
    /\ dt' = [dt EXCEPT !.tried = Append(@, device_types[dt.i]), !.i = @ + 1]
    /\ UNCHANGED notDetect

\* line 125: no candidate is left
DetectNone ==
    /\ dt.pc = "loop" /\ dt.i > Len(device_types)
    /\ dt' = [dt EXCEPT !.pc = "done"]
    /\ UNCHANGED notDetect

InitDetect == CoreIdle /\ AllToolsIdle /\ SingleIdle /\ DetectStart /\ ProgressIdle
              /\ InterfacesIdle /\ UptimeIdle /\ InventoryIdle /\ RequestsIdle

NextDetect == LoginConnects \/ LoginFails \/ DetectNone

SpecDetect == InitDetect /\ [][NextDetect]_vars

\* the order the claim states
ClaimedOrder ==
    <<"cisco_ios", "cisco_xe", "cisco_xr", "cisco_nxos", "cisco_asa",
      "arista_eos", "juniper_junos", "hp_procurve", "hp_comware", "fortinet",
      "paloalto_panos", "vyos", "linux">>

FirstAccepted ==
    CHOOSE k \in 1..Len(ClaimedOrder) :
        /\ ClaimedOrder[k] \in dt.accepts
        /\ \A j \in 1..(k - 1) : ClaimedOrder[j] \notin dt.accepts

\* C23: the candidates are tried in the fixed order; the first one whose
\* login connects is returned and no later one is tried; the result is
\* (absent, absent) exactly when the login of every candidate fails.
C23_FirstCandidateWins ==
    dt.pc # "off" =>
        /\ IsPrefix(dt.tried, ClaimedOrder)
        /\ \A j \in 1..(Len(dt.tried) - 1) : dt.tried[j] \notin dt.accepts
        /\ dt.pc = "done" =>
            /\ (dt.device_type = None) <=> (dt.accepts = {})
            /\ (dt.capabilities = None) <=> (dt.accepts = {})
            /\ dt.accepts = {} => dt.tried = ClaimedOrder
            /\ dt.accepts # {} =>
                /\ dt.device_type = Some(ClaimedOrder[FirstAccepted])
                /\ dt.tried = SubSeq(ClaimedOrder, 1, FirstAccepted)

C23_Witness ==
    /\ dt.pc = "done"
    /\ dt.accepts = {"arista_eos", "linux"}
    /\ dt.device_type = Some("arista_eos")
    /\ Len(dt.tried) = 6

----------------------------------------------------------------------------
(* Progress tracker: utils/common.py, ProgressTracker.  Worker threads     *)
(* call update concurrently; any thread may read stats.  An increment      *)
(* (`+= 1`) is a read followed by a write, and another thread may run      *)
(* between the two unless the lock keeps it out.                           *)

\* worker threads calling update
NumWorkers == 2
\* update calls per worker
MaxUpdates == 1
\* the total given to the constructor: 0..MaxTotal
MaxTotal == 2

Workers == 1..NumWorkers

\* variant: the lock admits a thread while another holds it
LockAdmitsAlways(lock) == TRUE

\* threading.Lock: acquired only while no thread holds it
LockAdmits(lock) == lock = 0

\* stats, lines 276-283: a float in Python, kept here as the exact fraction
SuccessRate(completed, total) ==
    IF total > 0 THEN [num |-> completed * 100, den |-> total]
    ELSE [num |-> 0, den |-> 1]

\* __init__, lines 240-246
ProgressStart ==
    \E total \in 0..MaxTotal :
        pt = [pc |-> "run", total |-> total, lock |-> 0,
              completed |-> 0, failed |-> 0,
              w |-> [t \in Workers |-> [pc |-> "idle", success |-> TRUE,
                                        local |-> 0, calls |-> 0]],
              ok_calls |-> 0, failed_calls |-> 0,
              stats |-> None]

\* update(), line 256: a worker calls update with either outcome
UpdateCall(t) ==
    /\ pt.pc = "run" /\ pt.w[t].pc = "idle" /\ pt.w[t].calls < MaxUpdates
    /\ \E s \in BOOLEAN :
         pt' = [pt EXCEPT !.w[t].pc = "acquire", !.w[t].success = s,
                          !.w[t].calls = @ + 1]
    /\ UNCHANGED notProgress

\* line 258: with self._lock
UpdateAcquire(t) ==
    /\ pt.pc = "run" /\ pt.w[t].pc = "acquire"
    /\ LockAdmits(pt.lock)
    /\ pt' = [pt EXCEPT !.lock = t, !.w[t].pc = "read"]
    /\ UNCHANGED notProgress

\* lines 259-262: the counter is read
UpdateRead(t) ==
    /\ pt.pc = "run" /\ pt.w[t].pc = "read"
    /\ pt' = [pt EXCEPT !.w[t].local = IF pt.w[t].success THEN pt.completed
                                        ELSE pt.failed,
                        !.w[t].pc = "write"]
    /\ UNCHANGED notProgress

\* lines 259-267: the counter is written, the indicator advances, and the
\* lock is released on leaving the with block
UpdateWrite(t) ==
    /\ pt.pc = "run" /\ pt.w[t].pc = "write"
    /\ pt' = [pt EXCEPT !.completed = IF pt.w[t].success THEN pt.w[t].local + 1 ELSE @,
                        !.failed = IF pt.w[t].success THEN @ ELSE pt.w[t].local + 1,
                        !.ok_calls = IF pt.w[t].success THEN @ + 1 ELSE @,
                        !.failed_calls = IF pt.w[t].success THEN @ ELSE @ + 1,
                        !.lock = IF pt.lock = t THEN 0 ELSE @,
                        !.w[t].pc = "idle"]
    /\ UNCHANGED notProgress

\* stats, lines 274-283: read under the lock
Stats ==
    /\ pt.pc = "run" /\ LockAdmits(pt.lock)
    /\ pt' = [pt EXCEPT !.stats =
                 Some([total |-> pt.total, completed |-> pt.completed,
                       failed |-> pt.failed,
                       success_rate |-> SuccessRate(pt.completed, pt.total),
                       ok_calls |-> pt.ok_calls,
                       failed_calls |-> pt.failed_calls])]
    /\ UNCHANGED notProgress

InitProgress == CoreIdle /\ AllToolsIdle /\ SingleIdle /\ DetectIdle /\ ProgressStart
                /\ InterfacesIdle /\ UptimeIdle /\ InventoryIdle /\ RequestsIdle

NextProgress ==
    \/ \E t \in Workers : UpdateCall(t) \/ UpdateAcquire(t) \/ UpdateRead(t)
                            \/ UpdateWrite(t)
    \/ Stats

SpecProgress == InitProgress /\ [][NextProgress]_vars

\* C24: under any interleaving no increment is lost: the counters equal the
\* numbers of update calls made with success true and with success false,
\* and stats reports them with success_rate = completed/total*100, or 0
\* when total is 0.
C24_NoLostUpdate ==
    pt.pc # "off" =>
        /\ pt.completed = pt.ok_calls
        /\ pt.failed = pt.failed_calls
        /\ pt.stats # None =>
            LET s == pt.stats[1]
            IN /\ s.total = pt.total
               /\ s.completed = s.ok_calls
               /\ s.failed = s.failed_calls
               /\ IF s.total = 0
                  THEN s.success_rate.num = 0
                  ELSE s.success_rate.num * s.total
                         = s.completed * 100 * s.success_rate.den

C24_Witness ==
    /\ pt.pc = "run"
    /\ \A t \in Workers : pt.w[t].pc = "idle" /\ pt.w[t].calls = MaxUpdates
    /\ pt.completed = 1 /\ pt.failed = 1
    /\ pt.total = 2
    /\ pt.stats # None /\ pt.stats[1].completed = 1

----------------------------------------------------------------------------
(* Interface metrics: health_check.py, collect_interface_metrics.          *)
(* The listing is an input.  The loop over its lines only counts, so a     *)
(* listing is given by the number of its lines of each kind: lines that    *)
(* name no interface, and interface lines with or without "up" and with    *)
(* or without one of the words "error", "drop", "crc".  A percentage is    *)
(* the exact fraction num/den; the value stored in a metric is that        *)
(* fraction rounded to two decimals, in hundredths.                        *)

\* interface lines of a listing: 0..MaxLines
MaxLines == 20

\* line 116: the vendors whose listing is read
InterfaceVendors == {"cisco", "cisco_ios", "cisco_xe"}

Listings ==
    {l \in [other : 0..1, up_err : 0..MaxLines, up_ok : 0..MaxLines,
            down_err : 0..MaxLines, down_ok : 0..MaxLines] :
        l.up_err + l.up_ok + l.down_err + l.down_ok <= MaxLines}

\* lines 121-132: the counters after the loop
TotalCount(l) == l.up_err + l.up_ok + l.down_err + l.down_ok
UpCount(l) == l.up_err + l.up_ok
ErrorCount(l) == l.up_err + l.down_err

\* lines 136 and 153: (count / total_count) * 100
Percent(count, total) == [num |-> count * 100, den |-> total]

Below(p, limit) == p.num < limit * p.den
Above(p, limit) == p.num > limit * p.den

\* round(x, 2), in hundredths: the nearest, and the even one of two nearest
Round2(p) ==
    LET q == (p.num * 100) \div p.den
        r == (p.num * 100) % p.den
    IN IF 2 * r < p.den THEN q
       ELSE IF 2 * r > p.den THEN q + 1
       ELSE IF q % 2 = 0 THEN q ELSE q + 1

\* variant: an availability of exactly 80 is CRITICAL
AvailabilityStatusInclusive(p) ==
    IF ~Above(p, 80) THEN "CRITICAL"
    ELSE IF Below(p, 95) THEN "WARNING" ELSE "GOOD"

\* lines 143-148
AvailabilityStatus(p) ==
    IF Below(p, 80) THEN "CRITICAL"
    ELSE IF Below(p, 95) THEN "WARNING" ELSE "GOOD"

\* lines 160-165
ErrorRateStatus(p) ==
    IF Above(p, 10) THEN "CRITICAL"
    ELSE IF Above(p, 5) THEN "WARNING" ELSE "GOOD"

\* lines 137-141 and 154-158: HealthMetric(name, value, unit) and its status
InterfaceMetric(name, p, status) ==
    [name |-> name, value |-> Round2(p), unit |-> "%", status |-> status]

\* a listing is fetched for the vendors of line 116 only; the command may fail
InterfacesStart ==
    \/ \E v \in InterfaceVendors, l \in Listings, ok \in BOOLEAN :
         im = [pc |-> "collect", vendor |-> v, listing |-> l, command_ok |-> ok,
               interface_utilization |-> <<>>, interface_errors |-> <<>>]
    \/ im = [pc |-> "collect", vendor |-> "arista_eos",
             listing |-> [other |-> 0, up_err |-> 0, up_ok |-> 0,
                          down_err |-> 0, down_ok |-> 0],
             command_ok |-> TRUE,
             interface_utilization |-> <<>>, interface_errors |-> <<>>]

\* lines 115-170: the whole collection
CollectInterfaceMetrics ==
    /\ im.pc = "collect"
    /\ LET l == im.listing
           total_count == TotalCount(l)
           availability == Percent(UpCount(l), total_count)
           error_rate == Percent(ErrorCount(l), total_count)
           records == im.vendor \in InterfaceVendors /\ im.command_ok
                      /\ total_count > 0
       IN im' = [im EXCEPT
                   !.pc = "done",
                   !.interface_utilization =
                       IF records
                       THEN Append(@, InterfaceMetric("Interface Availability",
                                        availability, AvailabilityStatus(availability)))
                       ELSE @,
                   !.interface_errors =
                       IF records
                       THEN Append(@, InterfaceMetric("Interface Error Rate",
                                        error_rate, ErrorRateStatus(error_rate)))
                       ELSE @]
    /\ UNCHANGED notInterfaces

InitInterfaces == CoreIdle /\ AllToolsIdle /\ SingleIdle /\ DetectIdle /\ ProgressIdle
                  /\ InterfacesStart /\ UptimeIdle /\ InventoryIdle /\ RequestsIdle

NextInterfaces == CollectInterfaceMetrics

SpecInterfaces == InitInterfaces /\ [][NextInterfaces]_vars

\* the value v, in hundredths, is count/total*100 to two decimals
IsPercentOf(v, count, total) ==
    LET d == v * total - count * 10000
    IN 2 * d <= total /\ -2 * d <= total

\* C25: for a listing read with total > 0 interface lines the availability
\* up/total*100 is recorded, CRITICAL below 80, WARNING from 80 to below
\* 95, GOOD otherwise, and the error rate errored/total*100 is recorded,
\* CRITICAL above 10, WARNING above 5 up to 10, GOOD otherwise; both lie in
\* 0..100; with total = 0 no interface metric is recorded.
C25_InterfaceThresholds ==
    (im.pc = "done" /\ im.vendor \in InterfaceVendors /\ im.command_ok) =>
        LET total == TotalCount(im.listing)
            up == UpCount(im.listing)
            errored == ErrorCount(im.listing)
        IN IF total = 0
           THEN im.interface_utilization = <<>> /\ im.interface_errors = <<>>
           ELSE /\ Len(im.interface_utilization) = 1
                /\ Len(im.interface_errors) = 1
                /\ LET a == im.interface_utilization[1]
                       e == im.interface_errors[1]
                   IN /\ IsPercentOf(a.value, up, total)
                      /\ IsPercentOf(e.value, errored, total)
                      /\ a.value \in 0..10000 /\ e.value \in 0..10000
                      /\ a.status = (IF up * 100 < 80 * total THEN "CRITICAL"
                                     ELSE IF up * 100 < 95 * total THEN "WARNING"
                                     ELSE "GOOD")
                      /\ e.status = (IF errored * 100 > 10 * total THEN "CRITICAL"
                                     ELSE IF errored * 100 > 5 * total THEN "WARNING"
                                     ELSE "GOOD")

C25_Witness ==
    /\ im.pc = "done"
    /\ TotalCount(im.listing) = 20 /\ UpCount(im.listing) = 19
    /\ ErrorCount(im.listing) = 2
    /\ Len(im.interface_utilization) = 1
    /\ im.interface_utilization[1].status = "GOOD"
    /\ im.interface_utilization[1].value = 9500
    /\ im.interface_errors[1].status = "WARNING"

----------------------------------------------------------------------------
(* Uptime formatting: device_discovery.py, format_uptime.  The tick count  *)
(* (hundredths of a second) is an input, drawn from the counts around the  *)
(* boundaries of a minute, an hour and a day.                              *)

\* whole days of uptime: 0..MaxDays
MaxDays == 2

Ticks ==
    {(d * 86400 + h * 3600 + m * 60 + s) * 100 + c :
        d \in 0..MaxDays, h \in {0, 1, 23}, m \in {0, 1, 59}, s \in {0, 59},
        c \in {0, 99}}

\* variant: the hours are not reduced to the hours of the last day
UptimePartsTotalHours(ticks) ==
    LET seconds == ticks \div 100
    IN [days |-> seconds \div 86400,
        hours |-> seconds \div 3600,
        minutes |-> (seconds % 3600) \div 60]

\* lines 265-268
UptimeParts(ticks) ==
    LET seconds == ticks \div 100
    IN [days |-> seconds \div 86400,
        hours |-> (seconds % 86400) \div 3600,
        minutes |-> (seconds % 3600) \div 60]

\* lines 270-275: the three f-strings
FormatUptime(ticks) ==
    LET p == UptimeParts(ticks)
    IN IF p.days > 0
       THEN ToString(p.days) \o "d " \o ToString(p.hours) \o "h "
            \o ToString(p.minutes) \o "m"
       ELSE IF p.hours > 0
       THEN ToString(p.hours) \o "h " \o ToString(p.minutes) \o "m"
       ELSE ToString(p.minutes) \o "m"

UptimeStart == \E t \in Ticks : ut = [pc |-> "call", ticks |-> t, uptime |-> ""]

\* snmp_discovery(), line 197: device_info.uptime = self.format_uptime(...)
FormatUptimeCall ==
    /\ ut.pc = "call"
    /\ ut' = [ut EXCEPT !.pc = "done", !.uptime = FormatUptime(ut.ticks)]
    /\ UNCHANGED notUptime

InitUptime == CoreIdle /\ AllToolsIdle /\ SingleIdle /\ DetectIdle /\ ProgressIdle
              /\ InterfacesIdle /\ UptimeStart /\ InventoryIdle /\ RequestsIdle

NextUptime == FormatUptimeCall

SpecUptime == InitUptime /\ [][NextUptime]_vars

\* the text the claim gives for a tick count
ClaimedUptime(ticks) ==
    LET seconds == ticks \div 100
        days == seconds \div 86400
        hours == (seconds % 86400) \div 3600
        minutes == (seconds % 3600) \div 60
    IN IF days > 0
       THEN ToString(days) \o "d " \o ToString(hours) \o "h " \o ToString(minutes) \o "m"
       ELSE IF hours > 0
       THEN ToString(hours) \o "h " \o ToString(minutes) \o "m"
       ELSE ToString(minutes) \o "m"

\* the texts with hours below 24 and minutes below 60 that tell the whole
\* minutes of the tick count
WellFormedUptimes(ticks) ==
    {IF d > 0
     THEN ToString(d) \o "d " \o ToString(h) \o "h " \o ToString(m) \o "m"
     ELSE IF h > 0 THEN ToString(h) \o "h " \o ToString(m) \o "m"
     ELSE ToString(m) \o "m" :
        <<d, h, m>> \in {x \in (0..(MaxDays + 1)) \X (0..23) \X (0..59) :
                          (x[1] * 86400 + x[2] * 3600 + x[3] * 60) * 100 <= ticks
                          /\ ticks < (x[1] * 86400 + x[2] * 3600 + x[3] * 60 + 60) * 100}}

\* C26: the text is built from seconds = ticks div 100, days = seconds div
\* 86400, hours = (seconds mod 86400) div 3600, minutes = (seconds mod 3600)
\* div 60; days, hours and minutes when days > 0, hours and minutes when
\* only hours > 0, minutes alone otherwise; hours are below 24 and minutes
\* below 60; 8,640,000 gives "1d 0h 0m", 360,000 "1h 0m", 6,000 "1m".
C26_FormatUptime ==
    ut.pc = "done" =>
        /\ ut.uptime = ClaimedUptime(ut.ticks)
        /\ ut.uptime \in WellFormedUptimes(ut.ticks)
        /\ ut.ticks = 8640000 => ut.uptime = "1d 0h 0m"
        /\ ut.ticks = 360000 => ut.uptime = "1h 0m"
        /\ ut.ticks = 6000 => ut.uptime = "1m"

C26_Witness ==
    /\ ut.pc = "done"
    /\ ut.ticks = 8640000 + 23 * 360000 + 59 * 6000 + 5999
    /\ ut.uptime = "1d 23h 59m"

----------------------------------------------------------------------------
(* The inventory file over two runs: device_discovery.py, to_dict,         *)
(* save_inventory and load_existing_inventory.  The first run finds no     *)
(* file, discovers devices and saves; the second run loads the file in     *)
(* its constructor, discovers and saves again.  A value in memory carries  *)
(* its Python type, since asdict accepts dataclass instances only; a value *)
(* in the file is JSON: an object, or null.                                *)

\* addresses of the inventory: 1..NumInventory
NumInventory == 2

InventoryAddresses == 1..NumInventory

Instance(c) == [type |-> "DeviceCapabilities", fields |-> c]
Dict(c) == [type |-> "dict", fields |-> c]

\* snmp_discovery (line 186) and ssh_discovery (lines 304-306): the devices
\* a run may discover at an address
DeviceInfos(ip) ==
    {[ip_address |-> ip, discovery_method |-> "SNMP", capabilities |-> None]}
    \cup {[ip_address |-> ip, discovery_method |-> "SSH",
           capabilities |-> Some(Instance(DetectCapabilities(t, out)))] :
            <<t, out>> \in {<<"cisco_ios", "IOS">>, <<"linux", "">>}}

Discoveries ==
    UNION {{f \in [S -> UNION {DeviceInfos(ip) : ip \in S}] :
                \A ip \in S : f[ip] \in DeviceInfos(ip)} :
            S \in SUBSET InventoryAddresses}

\* dataclasses.asdict on a capabilities value: TypeError unless it is a
\* dataclass instance
AsDict(v) ==
    IF v.type = "DeviceCapabilities" THEN [raises |-> FALSE, data |-> Dict(v.fields)]
    ELSE [raises |-> TRUE, data |-> v]

\* to_dict, lines 81-86: asdict(self) converts a nested instance and copies
\* a nested dict; a capabilities value that is true is converted once more
ToDict(device) ==
    IF device.capabilities = None
    THEN [raises |-> FALSE, data |-> device]
    ELSE LET again == AsDict(device.capabilities[1])
         IN [raises |-> again.raises,
             data |-> [device EXCEPT !.capabilities = Some(again.data)]]

\* json.dump and json.load of a device dictionary: the nested dictionary
\* becomes an object, None becomes null, and back
JsonDevice(data) ==
    [ip_address |-> data.ip_address, discovery_method |-> data.discovery_method,
     capabilities |-> IF data.capabilities = None THEN None
                      ELSE Some(data.capabilities[1].fields)]

\* load_existing_inventory, line 123: DeviceInfo(**device_data) keeps the
\* loaded values as they are
LoadDevice(json) ==
    [ip_address |-> json.ip_address, discovery_method |-> json.discovery_method,
     capabilities |-> IF json.capabilities = None THEN None
                      ELSE Some(Dict(json.capabilities[1]))]

\* save_inventory, line 536: {**known, **discovered}
AllDevices(known, found) ==
    [ip \in DOMAIN known \cup DOMAIN found |->
        IF ip \in DOMAIN found THEN found[ip] ELSE known[ip]]

\* the first run: no inventory file exists, so nothing is loaded
InventoryStart ==
    \E found \in Discoveries :
        inv = [pc |-> "save", run |-> 1, known_devices |-> <<>>,
               discovered_devices |-> found, file |-> None, first_file |-> None,
               raised |-> None]

\* save_inventory, lines 530-571: every device is converted, and the list is
\* written to the main inventory file; an exception of to_dict ends the call
SaveInventoryFile ==
    /\ inv.pc = "save"
    /\ LET all_devices == AllDevices(inv.known_devices, inv.discovered_devices)
           device_list == [ip \in DOMAIN all_devices |-> ToDict(all_devices[ip])]
           written == [ip \in DOMAIN all_devices |-> JsonDevice(device_list[ip].data)]
       IN IF \E ip \in DOMAIN all_devices : device_list[ip].raises
          THEN inv' = [inv EXCEPT !.raised = Some("TypeError"), !.pc = "done"]
          ELSE inv' = [inv EXCEPT
                         !.file = Some(written),
                         !.first_file = IF inv.run = 1 THEN Some(written) ELSE @,
                         !.pc = IF inv.run = 1 THEN "load" ELSE "done"]
    /\ UNCHANGED notInventory

\* __init__, line 114, of a later run: load_existing_inventory, lines 116-127
LoadExistingInventory ==
    /\ inv.pc = "load"
    /\ inv' = [inv EXCEPT
                 !.run = 2,
                 !.known_devices = [ip \in DOMAIN inv.file[1] |->
                                        LoadDevice(inv.file[1][ip])],
                 !.discovered_devices = <<>>,
                 !.pc = "discover"]
    /\ UNCHANGED notInventory

\* the later run's scan, after which main() saves the inventory
DiscoverAgain ==
    /\ inv.pc = "discover"
    /\ \E found \in Discoveries :
         inv' = [inv EXCEPT !.discovered_devices = found, !.pc = "save"]
    /\ UNCHANGED notInventory

InitInventory == CoreIdle /\ AllToolsIdle /\ SingleIdle /\ DetectIdle /\ ProgressIdle
                 /\ InterfacesIdle /\ UptimeIdle /\ InventoryStart /\ RequestsIdle

NextInventory == SaveInventoryFile \/ LoadExistingInventory \/ DiscoverAgain

SpecInventory == InitInventory /\ [][NextInventory]_vars

\* C27: a file written by save_inventory is loaded by a later run and saved
\* again: the save succeeds, and the file written again holds the record of
\* every device of the first file that the later run did not find anew,
\* devices with a capabilities profile included.
C27_InventoryRoundTrip ==
    (inv.pc = "done" /\ inv.run = 2) =>
        /\ inv.raised = None
        /\ \A ip \in DOMAIN inv.first_file[1] \ DOMAIN inv.discovered_devices :
              /\ ip \in DOMAIN inv.file[1]
              /\ inv.file[1][ip] = inv.first_file[1][ip]

----------------------------------------------------------------------------
(* The sessions of the connection manager after close_all_connections *)

\* C28: when close_all_connections completes while no create_connection
\* call is in progress, every session create_connection ever opened has
\* been disconnected: none was left outside the pool.
C28_EverySessionClosed ==
    [][(CloseAll /\ \A t \in Threads : th[t].pc = "idle") =>
          \A i \in DOMAIN sessions' : sessions'[i].state = "disconnected"]_vars

----------------------------------------------------------------------------
(* Concurrent credential requests: the worker threads of discover_network  *)
(* run ssh_discovery, which calls get_credentials() with no arguments.     *)
(* get_credentials takes no lock, so the steps of two calls interleave:    *)
(* the resolution of the username, the cache test, the resolution of the   *)
(* password, and the store into the cache.                                 *)

\* worker threads inside get_credentials at once
NumCallers == 2

Callers == 1..NumCallers

IdleCaller == [pc |-> "idle", username |-> None, password |-> None, returned |-> None]

\* what the user may type at a password prompt: two prompts need not be
\* answered alike
PromptedPasswords == TypedPasswords \cup {Some("typo")}

\* the environment of the process; nothing is cached before the scan
RequestsStart ==
    \E env \in CredEnvs :
        ct = [pc |-> "scan", env |-> env, cache |-> <<>>,
              w |-> [t \in Callers |-> IdleCaller],
              resolutions |-> <<>>,   \* history: the usernames a password was resolved for
              prompts |-> 0]          \* history: calls of getpass

\* ssh_discovery(), lines 281-286, and get_credentials(), lines 192-196:
\* the call begins and resolves the username, asking for it if need be
RequestUsername(t) ==
    /\ ct.pc = "scan" /\ ct.w[t].pc = "idle"
    /\ \E typed \in (IF AsksUsername(None, TRUE, ct.env) THEN TypedUsernames ELSE {None}) :
         ct' = [ct EXCEPT !.w[t].username = ResolveUsername(None, TRUE, ct.env, typed),
                          !.w[t].pc = "cache"]
    /\ UNCHANGED notRequests

\* lines 199-200: the cache test
RequestCache(t) ==
    /\ ct.pc = "scan" /\ ct.w[t].pc = "cache"
    /\ ct' = IF ct.w[t].username \in DOMAIN ct.cache
             THEN [ct EXCEPT !.w[t].returned = Some(ct.cache[ct.w[t].username]),
                             !.w[t].pc = "done"]
             ELSE [ct EXCEPT !.w[t].pc = "password"]
    /\ UNCHANGED notRequests

\* lines 203-211: the password, from the environment or from getpass
RequestPassword(t) ==
    /\ ct.pc = "scan" /\ ct.w[t].pc = "password"
    /\ \E typed \in (IF AsksPassword(TRUE, ct.env) THEN PromptedPasswords ELSE {None}) :
         LET password == ResolvePassword(TRUE, ct.env, typed)
         IN ct' = [ct EXCEPT
                     !.w[t].password = password,
                     !.w[t].pc = IF Truthy(password) THEN "store" ELSE "failed",
                     !.resolutions = Append(@, ct.w[t].username),
                     !.prompts = IF AsksPassword(TRUE, ct.env) THEN @ + 1 ELSE @]
    /\ UNCHANGED notRequests

\* lines 213-222: the credential set is stored and returned
RequestStore(t) ==
    /\ ct.pc = "scan" /\ ct.w[t].pc = "store"
    /\ LET credentials == MakeCredentials(ct.w[t].username, ct.w[t].password, ct.env)
       IN ct' = [ct EXCEPT
                   !.cache = (ct.w[t].username :> credentials) @@ ct.cache,
                   !.w[t].returned = Some(credentials),
                   !.w[t].pc = "done"]
    /\ UNCHANGED notRequests

InitRequests == CoreIdle /\ AllToolsIdle /\ SingleIdle /\ DetectIdle /\ ProgressIdle
                /\ InterfacesIdle /\ UptimeIdle /\ InventoryIdle /\ RequestsStart

NextRequests ==
    \E t \in Callers : RequestUsername(t) \/ RequestCache(t) \/ RequestPassword(t)
                         \/ RequestStore(t)

SpecRequests == InitRequests /\ [][NextRequests]_vars

\* C29: when worker threads call get_credentials concurrently and resolve
\* one username, the password for it is resolved, and asked for, at most
\* once, and every caller receives the same credential set.
C29_ResolvedOnce ==
    ct.pc # "off" =>
        /\ \A i, j \in 1..Len(ct.resolutions) :
              ct.resolutions[i] = ct.resolutions[j] => i = j
        /\ \A t, u \in Callers :
              (ct.w[t].pc = "done" /\ ct.w[u].pc = "done"
               /\ ct.w[t].username = ct.w[u].username) =>
                  ct.w[t].returned = ct.w[u].returned

----------------------------------------------------------------------------
(* Internal failures of the tools under the suite runner *)

\* the tool run last got past its argument parser and then could not load
\* its configuration file
AbortedInside(t) == ~cli.config_ok /\ ParseAccepts(t, ScriptArgv(common_args))

\* C30: a tool that aborts because of an internal failure, such as a
\* configuration file that cannot be loaded, is classified as error, and
\* the suite then exits with code 2; this holds for each of the seven tools.
C30_InternalFailureIsError ==
    /\ (JustClassified /\ AbortedInside(LastTool)) => StatusOf(LastTool) = "error"
    /\ (pc = "exited" /\ AllClassified /\ \E t \in DOMAIN results : AbortedInside(t)) =>
          exit_code = Some(2)

====
